---- MODULE Spec2Model ----
(***************************************************************************)
(* Model of the generic menu system (util_menu_system.c) and of the parts  *)
(* of the DOGM128 menu driver (util_menu_driver.c) that the menu system    *)
(* calls or that draw a menu: menuDisplay, menuWriteBuffer, the header,    *)
(* the layout of an item and the decimals of a float.                      *)
(*                                                                         *)
(* A menu_t is a record; the variable menu maps every menu of the tree to  *)
(* its record.  Item i of the C array pItems is pItems[i + 1] here.        *)
(***************************************************************************)
EXTENDS Integers, Sequences, FiniteSets, TLC

\* menu: the menus of the tree; last: the last call made and what it returned;
\* pPrevMenu: the static variable of menuDisplay, the menu displayed last
VARIABLES menu, last, pPrevMenu

vars == <<menu, last, pPrevMenu>>

(***************************************************************************)
(* Bounds of the model.                                                    *)
(***************************************************************************)
\* greatest number of items of the submenu "Sub"
MaxItems == 4

(***************************************************************************)
(* Program constants.                                                      *)
(***************************************************************************)
\* MENU_ITEMS_PER_SCREEN of util_menu_driver.h: the pages 1..7 of the display
MENU_ITEMS_PER_SCREEN == 7

NULL == "NULL"

\* The menus of the tree: Main -> Sub -> Leaf and Main -> Leaf (Leaf is shared).
Menus == {"Main", "Sub", "Leaf"}

(***************************************************************************)
(* Integer conversions of the C code.                                      *)
(***************************************************************************)
ToUint8(x) == x % 256

ToInt8(x) == LET y == x % 256 IN IF y >= 128 THEN y - 256 ELSE y

\* reservedAreas & (1<<bit)
BitSet(reservedAreas, bit) == (reservedAreas \div (2 ^ bit)) % 2 = 1

(***************************************************************************)
(* util_menu_driver.c                                                      *)
(***************************************************************************)
RECURSIVE ReservedFrom(_, _)
\* the number of reserved pages among bit..7
ReservedFrom(reservedAreas, bit) ==
  IF bit > 7 THEN 0
  ELSE (IF BitSet(reservedAreas, bit) THEN 1 ELSE 0)
       + ReservedFrom(reservedAreas, bit + 1)

\* a slip: the loop starts at bit 0 and counts the header page too
determineItemsPerScreen_hdr(pMenu) ==
  ToUint8(MENU_ITEMS_PER_SCREEN - ReservedFrom(pMenu.reservedAreas, 0))

determineItemsPerScreen(pMenu) ==
  ToUint8(MENU_ITEMS_PER_SCREEN - ReservedFrom(pMenu.reservedAreas, 1))

\* uint8 menuGetScreen(const menu_t *pMenu, uint8 nItem)
menuGetScreen(pMenu, nItem) ==
  ToUint8(nItem) \div determineItemsPerScreen(pMenu)

\* a slip: getNextPage does not skip the reserved pages
getNextPage_noskip(pMenu, page) ==
  IF ToUint8(page + 1) > MENU_ITEMS_PER_SCREEN THEN 0 ELSE ToUint8(page + 1)

RECURSIVE NextPageFrom(_, _)
\* the do-while loop of getNextPage: page++, 0 beyond the last page, once more
\* while the page is reserved
NextPageFrom(reservedAreas, page) ==
  LET next == ToUint8(page + 1)
  IN  IF next > MENU_ITEMS_PER_SCREEN
      THEN 0
      ELSE IF BitSet(reservedAreas, next)
      THEN NextPageFrom(reservedAreas, next)
      ELSE next

\* a slip: the first page is taken without a look at reservedAreas
getNextPage_first(pMenu, page) ==
  IF page = 0 THEN 1 ELSE NextPageFrom(pMenu.reservedAreas, page)

\* static uint8 getNextPage(const menu_t *pMenu, uint8 page)
getNextPage(pMenu, page) == NextPageFrom(pMenu.reservedAreas, page)

\* the calls menuWriteBuffer makes to the LCD driver and to printHeader and
\* printItem: the function called, the page it is called for and the item
\* printed.  A horizontal line call is recorded with the page whose top it
\* borders, its y being page*LCD_PAGE_ROWS-1.
lcdBufferClearPage(page) == [call |-> "lcdBufferClearPage", page |-> page]

printHeader == [call |-> "printHeader", page |-> 0]

printItem(nItem, page) ==
  [call |-> "printItem", page |-> page, nItem |-> nItem]

lcdBufferSetHLine(page) == [call |-> "lcdBufferSetHLine", page |-> page]

lcdBufferInvertPage(page) == [call |-> "lcdBufferInvertPage", page |-> page]

lcdBufferClearHLine(page) == [call |-> "lcdBufferClearHLine", page |-> page]

lcdBufferInvert(page) == [call |-> "lcdBufferInvert", page |-> page]

\* a slip: the item before an extend item is taken for its master
MasterOf_prev(pMenu, masterNumber) == masterNumber

RECURSIVE MasterOf(_, _)
\* while(pMenu->pItems[masterNumber].flags & M_EXTEND) masterNumber--;
MasterOf(pMenu, masterNumber) ==
  IF pMenu.pItems[masterNumber + 1].extend
  THEN MasterOf(pMenu, ToInt8(masterNumber - 1))
  ELSE masterNumber

\* a slip: menuWriteBuffer leaves the pages below the last item as they are
ClearUnused_none(pMenu, page) == <<>>

RECURSIVE ClearUnused(_, _)
\* the second loop of menuWriteBuffer: the pages left are cleared
ClearUnused(pMenu, page) ==
  IF page # 0
  THEN <<lcdBufferClearPage(page)>>
       \o (IF BitSet(pMenu.reservedAreas, page - 1)
           THEN <<lcdBufferClearHLine(page)>>
           ELSE <<>>)
       \o ClearUnused(pMenu, getNextPage(pMenu, page))
  ELSE <<>>

RECURSIVE WriteItems_selected(_, _, _)
\* a slip: menuWriteBuffer marks the item nSelectedItem, not nCurrentItem
WriteItems_selected(pMenu, nItem, page) ==
  LET nCurrentItem == ToInt8(pMenu.nCurrentItem)
  IN  IF nItem < pMenu.nMenuItems /\ page # 0
      THEN <<lcdBufferClearPage(page), printItem(nItem, page)>>
           \o (IF nItem = pMenu.nSelectedItem
               THEN <<lcdBufferSetHLine(page), lcdBufferInvertPage(page)>>
               ELSE IF BitSet(pMenu.reservedAreas, page - 1)
               THEN <<lcdBufferClearHLine(page)>>
               ELSE <<>>)
           \o (IF pMenu.pItems[nItem + 1].extend
                  /\ MasterOf(pMenu, ToInt8(nItem - 1)) = nCurrentItem
               THEN <<lcdBufferInvert(page)>>
               ELSE <<>>)
           \o WriteItems_selected(pMenu, ToUint8(nItem + 1),
                                  getNextPage(pMenu, page))
      ELSE ClearUnused(pMenu, page)

RECURSIVE WriteItems(_, _, _)
\* the first loop of menuWriteBuffer, from the item nItem and the page page
\* on, followed by the second
WriteItems(pMenu, nItem, page) ==
  LET nCurrentItem == ToInt8(pMenu.nCurrentItem)
  IN  IF nItem < pMenu.nMenuItems /\ page # 0
      THEN <<lcdBufferClearPage(page), printItem(nItem, page)>>
           \o (IF nItem = nCurrentItem
               THEN <<lcdBufferSetHLine(page), lcdBufferInvertPage(page)>>
               ELSE IF BitSet(pMenu.reservedAreas, page - 1)
               THEN <<lcdBufferClearHLine(page)>>
               ELSE <<>>)
           \o (IF pMenu.pItems[nItem + 1].extend
                  /\ MasterOf(pMenu, ToInt8(nItem - 1)) = nCurrentItem
               THEN <<lcdBufferInvert(page)>>
               ELSE <<>>)
           \o WriteItems(pMenu, ToUint8(nItem + 1), getNextPage(pMenu, page))
      ELSE ClearUnused(pMenu, page)

\* void menuWriteBuffer(const menu_t *pMenu): the calls it makes, in order
menuWriteBuffer(pMenu) ==
  LET screen == ToInt8(pMenu.nScreen)
      itemsPerScreen == determineItemsPerScreen(pMenu)
      nItem == ToUint8(screen * itemsPerScreen)
  IN  (IF ~BitSet(pMenu.reservedAreas, 0)
       THEN <<lcdBufferClearPage(0), printHeader>>
       ELSE <<>>)
      \o WriteItems(pMenu, nItem, getNextPage(pMenu, 0))

(***************************************************************************)
(* util_menu_system.c                                                      *)
(***************************************************************************)
\* a slip: the test of the flag is inverted
ItemDisabled_inverted(pMenu, nItem) == ~pMenu.pItems[nItem + 1].disabled

\* pMenu->pItems[nItem].flags & M_DISABLED
ItemDisabled(pMenu, nItem) == pMenu.pItems[nItem + 1].disabled

\* a slip: the loop of menuUp does not skip disabled items
UpScan_noskip(pMenu, attemptedItem) == attemptedItem

RECURSIVE UpScan(_, _)
\* the while loop of menuUp: the value of attemptedItem when it ends
UpScan(pMenu, attemptedItem) ==
  IF attemptedItem >= 0 /\ ItemDisabled(pMenu, attemptedItem)
  THEN UpScan(pMenu, ToInt8(attemptedItem - 1))
  ELSE attemptedItem

\* a slip: the loop of menuDown does not skip disabled items
DownScan_noskip(pMenu, attemptedItem) == attemptedItem

RECURSIVE DownScan(_, _)
\* the while loop of menuDown: the value of attemptedItem when it ends
DownScan(pMenu, attemptedItem) ==
  IF attemptedItem < pMenu.nMenuItems /\ ItemDisabled(pMenu, attemptedItem)
  THEN DownScan(pMenu, ToUint8(attemptedItem + 1))
  ELSE attemptedItem

\* a slip: an item found on the screen before becomes current also when the
\* current item is on a screen before the current screen
UpMove_anyscreen(pMenu, attemptedItem) ==
  LET itemFound == attemptedItem >= 0
      attemptedItemScreen == ToInt8(menuGetScreen(pMenu, attemptedItem))
      currentItemScreen == ToInt8(menuGetScreen(pMenu, pMenu.nCurrentItem))
      currentScreen == ToInt8(pMenu.nScreen)
  IN  IF itemFound /\ attemptedItemScreen = currentScreen
         /\ currentItemScreen = currentScreen
      THEN [menu |-> [pMenu EXCEPT !.nCurrentItem = ToUint8(attemptedItem)],
            ret |-> 1]
      ELSE IF itemFound /\ attemptedItemScreen = currentScreen - 1
      THEN [menu |-> [pMenu EXCEPT !.nCurrentItem = ToUint8(attemptedItem),
                                   !.nScreen = ToUint8(pMenu.nScreen - 1)],
            ret |-> 1]
      ELSE IF pMenu.nScreen > 0
      THEN [menu |-> [pMenu EXCEPT !.nScreen = ToUint8(pMenu.nScreen - 1)],
            ret |-> 1]
      ELSE [menu |-> pMenu, ret |-> 0]

\* a slip: menuUp decrements the screen without testing that it is above 0
UpMove_unguarded(pMenu, attemptedItem) ==
  LET itemFound == attemptedItem >= 0
      attemptedItemScreen == ToInt8(menuGetScreen(pMenu, attemptedItem))
      currentItemScreen == ToInt8(menuGetScreen(pMenu, pMenu.nCurrentItem))
      currentScreen == ToInt8(pMenu.nScreen)
  IN  IF itemFound /\ attemptedItemScreen = currentScreen
         /\ currentItemScreen = currentScreen
      THEN [menu |-> [pMenu EXCEPT !.nCurrentItem = ToUint8(attemptedItem)],
            ret |-> 1]
      ELSE IF itemFound
      THEN [menu |-> [pMenu EXCEPT !.nCurrentItem = ToUint8(attemptedItem),
                                   !.nScreen = ToUint8(pMenu.nScreen - 1)],
            ret |-> 1]
      ELSE [menu |-> [pMenu EXCEPT !.nScreen = ToUint8(pMenu.nScreen - 1)],
            ret |-> 0]

\* menuUp after its while loop has ended with attemptedItem: the menu after the
\* call and the value returned
UpMove(pMenu, attemptedItem) ==
  LET itemFound == attemptedItem >= 0
      attemptedItemScreen == ToInt8(menuGetScreen(pMenu, attemptedItem))
      currentItemScreen == ToInt8(menuGetScreen(pMenu, pMenu.nCurrentItem))
      currentScreen == ToInt8(pMenu.nScreen)
  IN  IF itemFound /\ attemptedItemScreen = currentScreen
         /\ currentItemScreen = currentScreen
      THEN [menu |-> [pMenu EXCEPT !.nCurrentItem = ToUint8(attemptedItem)],
            ret |-> 1]
      ELSE IF itemFound /\ attemptedItemScreen = currentScreen - 1
              /\ currentItemScreen >= currentScreen
      THEN [menu |-> [pMenu EXCEPT !.nCurrentItem = ToUint8(attemptedItem),
                                   !.nScreen = ToUint8(pMenu.nScreen - 1)],
            ret |-> 1]
      ELSE IF pMenu.nScreen > 0
      THEN [menu |-> [pMenu EXCEPT !.nScreen = ToUint8(pMenu.nScreen - 1)],
            ret |-> 1]
      ELSE [menu |-> pMenu, ret |-> 0]

\* a slip: menuUp never decrements the screen
menuUp_keepscreen(pMenu) ==
  LET r == UpMove(pMenu, UpScan(pMenu, ToInt8(pMenu.nCurrentItem - 1)))
  IN  [r EXCEPT !.menu.nScreen = pMenu.nScreen]

\* uint8 menuUp(menu_t *pMenu): the menu after the call and the value returned
menuUp(pMenu) ==
  UpMove(pMenu, UpScan(pMenu, ToInt8(pMenu.nCurrentItem - 1)))

\* a slip: an item found on the next screen becomes current also when the
\* current item is on a screen after the current screen
DownMove_anyscreen(pMenu, attemptedItem) ==
  LET itemFound == attemptedItem < pMenu.nMenuItems
      attemptedItemScreen == menuGetScreen(pMenu, attemptedItem)
      currentItemScreen == menuGetScreen(pMenu, pMenu.nCurrentItem)
      currentScreen == pMenu.nScreen
      lastScreen == IF pMenu.nMenuItems > 0
                    THEN menuGetScreen(pMenu, pMenu.nMenuItems - 1)
                    ELSE 0
  IN  IF itemFound /\ attemptedItemScreen = currentScreen
         /\ currentItemScreen = currentScreen
      THEN [menu |-> [pMenu EXCEPT !.nCurrentItem = attemptedItem],
            ret |-> 1]
      ELSE IF itemFound /\ attemptedItemScreen = currentScreen + 1
      THEN [menu |-> [pMenu EXCEPT !.nCurrentItem = attemptedItem,
                                   !.nScreen = ToUint8(pMenu.nScreen + 1)],
            ret |-> 1]
      ELSE IF pMenu.nScreen < lastScreen
      THEN [menu |-> [pMenu EXCEPT !.nScreen = ToUint8(pMenu.nScreen + 1)],
            ret |-> 1]
      ELSE [menu |-> pMenu, ret |-> 0]

\* a slip: an item found on a later screen becomes current and its screen is
\* shown, whatever screens lie between
DownMove_jump(pMenu, attemptedItem) ==
  LET itemFound == attemptedItem < pMenu.nMenuItems
      attemptedItemScreen == menuGetScreen(pMenu, attemptedItem)
      lastScreen == IF pMenu.nMenuItems > 0
                    THEN menuGetScreen(pMenu, pMenu.nMenuItems - 1)
                    ELSE 0
  IN  IF itemFound /\ attemptedItemScreen >= pMenu.nScreen
      THEN [menu |-> [pMenu EXCEPT !.nCurrentItem = attemptedItem,
                                   !.nScreen = attemptedItemScreen],
            ret |-> 1]
      ELSE IF pMenu.nScreen < lastScreen
      THEN [menu |-> [pMenu EXCEPT !.nScreen = ToUint8(pMenu.nScreen + 1)],
            ret |-> 1]
      ELSE [menu |-> pMenu, ret |-> 0]

\* menuDown after its while loop has ended with attemptedItem: the menu after
\* the call and the value returned
DownMove(pMenu, attemptedItem) ==
  LET itemFound == attemptedItem < pMenu.nMenuItems
      attemptedItemScreen == menuGetScreen(pMenu, attemptedItem)
      currentItemScreen == menuGetScreen(pMenu, pMenu.nCurrentItem)
      currentScreen == pMenu.nScreen
      lastScreen == IF pMenu.nMenuItems > 0
                    THEN menuGetScreen(pMenu, pMenu.nMenuItems - 1)
                    ELSE 0
  IN  IF itemFound /\ attemptedItemScreen = currentScreen
         /\ currentItemScreen = currentScreen
      THEN [menu |-> [pMenu EXCEPT !.nCurrentItem = attemptedItem],
            ret |-> 1]
      ELSE IF itemFound /\ attemptedItemScreen = currentScreen + 1
              /\ currentItemScreen <= currentScreen
      THEN [menu |-> [pMenu EXCEPT !.nCurrentItem = attemptedItem,
                                   !.nScreen = ToUint8(pMenu.nScreen + 1)],
            ret |-> 1]
      ELSE IF pMenu.nScreen < lastScreen
      THEN [menu |-> [pMenu EXCEPT !.nScreen = ToUint8(pMenu.nScreen + 1)],
            ret |-> 1]
      ELSE [menu |-> pMenu, ret |-> 0]

\* a slip: menuDown makes the item found current whatever screen it is on and
\* leaves the screen alone
menuDown_item(pMenu) ==
  LET attemptedItem == DownScan(pMenu, ToUint8(pMenu.nCurrentItem + 1))
  IN  IF attemptedItem < pMenu.nMenuItems
      THEN [menu |-> [pMenu EXCEPT !.nCurrentItem = attemptedItem], ret |-> 1]
      ELSE DownMove(pMenu, attemptedItem)

\* a slip: menuDown returns 1 at the bottom of the menu too
menuDown_returns1(pMenu) ==
  [DownMove(pMenu, DownScan(pMenu, ToUint8(pMenu.nCurrentItem + 1)))
     EXCEPT !.ret = 1]

\* uint8 menuDown(menu_t *pMenu): the menu after the call and the value returned
menuDown(pMenu) ==
  DownMove(pMenu, DownScan(pMenu, ToUint8(pMenu.nCurrentItem + 1)))

\* a slip: menuPositionTop calls menuUp once
menuPositionTop_once(pMenu) == menuUp(pMenu).menu

RECURSIVE menuPositionTop(_)
\* void menuPositionTop(menu_t *pMenu): while(menuUp(pMenu));
menuPositionTop(pMenu) ==
  LET r == menuUp(pMenu)
  IN  IF r.ret # 0 THEN menuPositionTop(r.menu) ELSE r.menu

\* what menuEnter reads at pItems[nCurrentItem] when nCurrentItem is not below
\* nMenuItems (an empty menu): the read is out of bounds, any item may come back
OutOfBoundsItems ==
  [disabled : {FALSE}, pSubMenu : Menus \cup {NULL}, pApplication : BOOLEAN]

\* the items menuEnter may read as pMenu->pItems[nCurrentItem]
EnterItems(pMenu) ==
  IF pMenu.nCurrentItem < pMenu.nMenuItems
  THEN {pMenu.pItems[pMenu.nCurrentItem + 1]}
  ELSE OutOfBoundsItems

\* the values the application callback of an item may return
AppReturns(item) == IF item.pApplication THEN {0, 1} ELSE {0}

\* a slip: menuEnter selects the current item whenever nSelectedItem is not -1
EnterItem_notminus1(self, pMenu, item, appRet) ==
  LET nCurrentItem == ToInt8(pMenu.nCurrentItem)
      selected == IF pMenu.nSelectedItem # -1
                  THEN [pMenu EXCEPT !.nSelectedItem = nCurrentItem]
                  ELSE pMenu
      called == IF item.pApplication THEN 1 ELSE 0
  IN  IF item.pApplication /\ appRet # 0
      THEN [menu |-> selected, ret |-> self, linked |-> NULL,
            called |-> called]
      ELSE IF item.pSubMenu # NULL
      THEN [menu |-> selected, ret |-> item.pSubMenu,
            linked |-> item.pSubMenu, called |-> called]
      ELSE [menu |-> selected, ret |-> self, linked |-> NULL,
            called |-> called]

\* a slip: menuEnter opens the submenu whatever the callback returns
EnterItem_descends(self, pMenu, item, appRet) ==
  LET nCurrentItem == ToInt8(pMenu.nCurrentItem)
      selected == IF pMenu.nSelectedItem > -1
                  THEN [pMenu EXCEPT !.nSelectedItem = nCurrentItem]
                  ELSE pMenu
      called == IF item.pApplication THEN 1 ELSE 0
  IN  IF item.pSubMenu # NULL
      THEN [menu |-> selected, ret |-> item.pSubMenu,
            linked |-> item.pSubMenu, called |-> called]
      ELSE [menu |-> selected, ret |-> self, linked |-> NULL,
            called |-> called]

\* a slip: menuEnter returns the submenu and does not write its pParentMenu
EnterItem_nolink(self, pMenu, item, appRet) ==
  LET nCurrentItem == ToInt8(pMenu.nCurrentItem)
      selected == IF pMenu.nSelectedItem > -1
                  THEN [pMenu EXCEPT !.nSelectedItem = nCurrentItem]
                  ELSE pMenu
      called == IF item.pApplication THEN 1 ELSE 0
  IN  IF item.pApplication /\ appRet # 0
      THEN [menu |-> selected, ret |-> self, linked |-> NULL,
            called |-> called]
      ELSE IF item.pSubMenu # NULL
      THEN [menu |-> selected, ret |-> item.pSubMenu,
            linked |-> NULL, called |-> called]
      ELSE [menu |-> selected, ret |-> self, linked |-> NULL,
            called |-> called]

\* The then-branch of menuEnter (the current item is on the screen shown), for
\* the menu record pMenu at address self, the item read at pItems[nCurrentItem]
\* and the value appRet its callback returns: the menu after the call, the menu
\* returned, the submenu whose pParentMenu is written (NULL: none) and the
\* number of callback calls
EnterItem(self, pMenu, item, appRet) ==
  LET nCurrentItem == ToInt8(pMenu.nCurrentItem)
      selected == IF pMenu.nSelectedItem > -1
                  THEN [pMenu EXCEPT !.nSelectedItem = nCurrentItem]
                  ELSE pMenu
      called == IF item.pApplication THEN 1 ELSE 0
  IN  IF item.pApplication /\ appRet # 0
      THEN [menu |-> selected, ret |-> self, linked |-> NULL,
            called |-> called]
      ELSE IF item.pSubMenu # NULL
      THEN [menu |-> selected, ret |-> item.pSubMenu,
            linked |-> item.pSubMenu, called |-> called]
      ELSE [menu |-> selected, ret |-> self, linked |-> NULL,
            called |-> called]

\* a slip: menuEnter does not test that the current item is on the screen shown
menuEnter_anyscreen(self, pMenu, item, appRet) ==
  EnterItem(self, pMenu, item, appRet)

\* menu_t* menuEnter(menu_t *pMenu)
menuEnter(self, pMenu, item, appRet) ==
  LET nCurrentItem == ToInt8(pMenu.nCurrentItem)
      nCurrentItemScreen == ToInt8(menuGetScreen(pMenu, nCurrentItem))
  IN  IF nCurrentItemScreen = pMenu.nScreen
      THEN EnterItem(self, pMenu, item, appRet)
      ELSE [menu |-> pMenu, ret |-> self, linked |-> NULL, called |-> 0]

\* a slip: menuBack goes to the top whatever nSelectedItem is
menuBack_top(self, pMenu) ==
  IF pMenu.pParentMenu # NULL
  THEN [menu |-> menuPositionTop(pMenu), ret |-> pMenu.pParentMenu]
  ELSE [menu |-> pMenu, ret |-> self]

\* a slip: menuBack resets the position of a menu that has no parent too
menuBack_rootreset(self, pMenu) ==
  [menu |-> IF pMenu.nSelectedItem = -1
            THEN menuPositionTop(pMenu)
            ELSE IF pMenu.nSelectedItem = -2
            THEN pMenu
            ELSE [pMenu EXCEPT
                    !.nCurrentItem = ToUint8(pMenu.nSelectedItem),
                    !.nScreen = menuGetScreen(pMenu, pMenu.nSelectedItem)],
   ret |-> IF pMenu.pParentMenu # NULL THEN pMenu.pParentMenu ELSE self]

\* a slip: menuBack clears the pParentMenu of the menu it leaves
menuBack_unlink(self, pMenu) ==
  IF pMenu.pParentMenu # NULL
  THEN [menu |-> [pMenu EXCEPT !.pParentMenu = NULL],
        ret |-> pMenu.pParentMenu]
  ELSE [menu |-> pMenu, ret |-> self]

\* menu_t* menuBack(menu_t *pMenu), for the menu record pMenu at address self:
\* the menu after the call and the menu returned
menuBack(self, pMenu) ==
  IF pMenu.pParentMenu # NULL
  THEN [menu |-> IF pMenu.nSelectedItem = -1
                 THEN menuPositionTop(pMenu)
                 ELSE IF pMenu.nSelectedItem = -2
                 THEN pMenu
                 ELSE [pMenu EXCEPT
                         !.nCurrentItem = ToUint8(pMenu.nSelectedItem),
                         !.nScreen = menuGetScreen(pMenu, pMenu.nSelectedItem)],
        ret |-> pMenu.pParentMenu]
  ELSE [menu |-> pMenu, ret |-> self]

\* a slip: menuTop goes up one menu only
menuTop_onehop(heap, self) ==
  IF heap[self].pParentMenu = NULL THEN self ELSE heap[self].pParentMenu

\* the number of menus the loop of menuTop can pass without passing one twice
MenuCount == Cardinality(Menus)

RECURSIVE TopFrom(_, _, _)
\* the loop of menuTop from pTopMenu, in the menus heap, with hops more menus
\* to pass before one has been passed twice: the menu the loop ends at, or
\* NULL when it does not end (the loop writes nothing, so once it has passed
\* one menu twice it goes round for ever)
TopFrom(heap, pTopMenu, hops) ==
  IF heap[pTopMenu].pParentMenu = NULL
  THEN pTopMenu
  ELSE IF hops = 0
  THEN NULL
  ELSE TopFrom(heap, heap[pTopMenu].pParentMenu, hops - 1)

\* menu_t* menuTop(const menu_t *pMenu), for the menu at address self in the
\* menus heap: the menu returned, or NULL when the call does not return
menuTop(heap, self) == TopFrom(heap, self, MenuCount)

(***************************************************************************)
(* The menu tree the operations run on.                                    *)
(***************************************************************************)
Item(disabled, pSubMenu, pApplication) ==
  [disabled |-> disabled, pSubMenu |-> pSubMenu, pApplication |-> pApplication]

\* the top menu: its first item runs an application and then opens the
\* submenu "Sub", its second item opens the menu "Leaf"
MainMenu ==
  [pItems |-> <<Item(FALSE, "Sub", TRUE), Item(FALSE, "Leaf", FALSE)>>,
   pParentMenu |-> NULL, nMenuItems |-> 2, nCurrentItem |-> 0,
   nSelectedItem |-> -1, nScreen |-> 0, reservedAreas |-> 0]

\* a menu of one item that runs an application; the top menu and the submenu
\* both open it
LeafMenu ==
  [pItems |-> <<Item(FALSE, NULL, TRUE)>>,
   pParentMenu |-> NULL, nMenuItems |-> 1, nCurrentItem |-> 0,
   nSelectedItem |-> -2, nScreen |-> 0, reservedAreas |-> 0]

\* reservedAreas of the submenu: pages 3..7 reserved (two items a screen),
\* or the header and the pages 2..7 reserved (one item a screen)
ReservedChoices == {248, 253}

\* the items of the submenu: item 0 runs an application, item 1 opens "Leaf",
\* item 2 does both, item 3 neither, and so on
SubItems(disabled) ==
  [i \in 1..Len(disabled) |->
     Item(disabled[i],
          IF (i - 1) % 4 \in {1, 2} THEN "Leaf" ELSE NULL,
          (i - 1) % 4 \in {0, 2})]

\* the indices of the items of pMenu that are not disabled
EnabledItems(pMenu) ==
  {i \in 0..(pMenu.nMenuItems - 1) : ~pMenu.pItems[i + 1].disabled}

\* a submenu as the application constructs it, shown on the screen of its
\* current item
SubMenu(disabled, reservedAreas, nCurrentItem, nSelectedItem) ==
  LET pMenu == [pItems |-> SubItems(disabled), pParentMenu |-> NULL,
                nMenuItems |-> Len(disabled), nCurrentItem |-> nCurrentItem,
                nSelectedItem |-> nSelectedItem, nScreen |-> 0,
                reservedAreas |-> reservedAreas]
  IN  [pMenu EXCEPT !.nScreen = menuGetScreen(pMenu, nCurrentItem)]

\* util_menu_system.h asks the developer to make sure that a disabled item is
\* not selected at startup: the current item and the selected item (when the
\* menu keeps one) are enabled items.  A menu with no enabled item keeps no
\* selected item and has any of its items (item 0 when it is empty) current.
StartsWell(pMenu) ==
  IF EnabledItems(pMenu) # {}
  THEN /\ pMenu.nCurrentItem \in EnabledItems(pMenu)
       /\ pMenu.nSelectedItem \in {-1, -2} \cup EnabledItems(pMenu)
  ELSE /\ pMenu.nCurrentItem < pMenu.nMenuItems \/ pMenu.nCurrentItem = 0
       /\ pMenu.nSelectedItem \in {-1, -2}

\* the submenus the application may construct
SubMenus ==
  { pMenu \in { SubMenu(d, ra, c, s) :
                  d \in UNION {[1..n -> BOOLEAN] : n \in 0..MaxItems},
                  ra \in ReservedChoices,
                  c \in 0..(MaxItems - 1),
                  s \in -2..(MaxItems - 1) } :
      StartsWell(pMenu) }

\* the record of the last call: the operation, the menu it was called on, the
\* value it returned and the number of callback calls it made
Call(op, self, ret, called) ==
  [op |-> op, menu |-> self, ret |-> ret, called |-> called]

Init ==
  /\ \E sub \in SubMenus :
       menu = [m \in Menus |-> CASE m = "Main" -> MainMenu
                                 [] m = "Leaf" -> LeafMenu
                                 [] m = "Sub" -> sub]
  /\ last = Call("none", NULL, 0, 0)
  /\ pPrevMenu = NULL

\* every call made so far has returned: the application runs on one thread and
\* makes its next call when the last one has returned
Returned == last.op = "menuTop" => last.ret # NULL

\* the application calls menuUp(&menu[self])
MoveUp(self) ==
  LET r == menuUp(menu[self])
  IN  /\ Returned
      /\ menu' = [menu EXCEPT ![self] = r.menu]
      /\ last' = Call("menuUp", self, r.ret, 0)
      /\ UNCHANGED pPrevMenu

\* the application calls menuDown(&menu[self])
MoveDown(self) ==
  LET r == menuDown(menu[self])
  IN  /\ Returned
      /\ menu' = [menu EXCEPT ![self] = r.menu]
      /\ last' = Call("menuDown", self, r.ret, 0)
      /\ UNCHANGED pPrevMenu

\* the application calls menuPositionTop(&menu[self])
PositionTop(self) ==
  /\ Returned
  /\ menu' = [menu EXCEPT ![self] = menuPositionTop(menu[self])]
  /\ last' = Call("menuPositionTop", self, 0, 0)
  /\ UNCHANGED pPrevMenu

\* the application calls menuEnter(&menu[self]); the callback of the item, when
\* it has one, returns appRet
Enter(self) ==
  \E item \in EnterItems(menu[self]) : \E appRet \in AppReturns(item) :
    LET r == menuEnter(self, menu[self], item, appRet)
        entered == [menu EXCEPT ![self] = r.menu]
    IN  /\ Returned
        /\ menu' = IF r.linked # NULL
                   THEN [entered EXCEPT ![r.linked].pParentMenu = self]
                   ELSE entered
        /\ last' = Call("menuEnter", self, r.ret, r.called)
        /\ UNCHANGED pPrevMenu

\* the application calls menuBack(&menu[self])
Back(self) ==
  LET r == menuBack(self, menu[self])
  IN  /\ Returned
      /\ menu' = [menu EXCEPT ![self] = r.menu]
      /\ last' = Call("menuBack", self, r.ret, 0)
      /\ UNCHANGED pPrevMenu

\* the application calls menuTop(&menu[self]); when the loop of menuTop does
\* not end the call stays the last one
Top(self) ==
  /\ Returned
  /\ last' = Call("menuTop", self, menuTop(menu, self), 0)
  /\ UNCHANGED <<menu, pPrevMenu>>

Next ==
  \E self \in Menus :
    \/ MoveUp(self)
    \/ MoveDown(self)
    \/ PositionTop(self)
    \/ Enter(self)
    \/ Back(self)
    \/ Top(self)

Spec == Init /\ [][Next]_vars

(***************************************************************************)
(* The menus the driver draws.                                             *)
(***************************************************************************)
\* the most items a drawn menu has: one more than a screen takes
MaxDrawnItems == 8

\* a drawn menu has no extend item, or every item but each third one extends
\* the item before it
ExtendPeriods == {0, 3}

\* the items of a drawn menu: an extend item is a dummy item (M_DUMMY, that
\* is M_EXTEND+M_DISABLED); item 0 has no item to extend
DrawnItems(n, period) ==
  [i \in 1..n |->
     LET extend == period > 0 /\ (i - 1) % period # 0
     IN  [disabled |-> extend, extend |-> extend, pSubMenu |-> NULL,
          pApplication |-> FALSE]]

\* the menu pMenu with the flag M_EXTEND clear in all its items
NoExtend(pMenu) ==
  [pMenu EXCEPT !.pItems =
     [i \in 1..Len(pMenu.pItems) |->
        [disabled |-> pMenu.pItems[i].disabled, extend |-> FALSE,
         pSubMenu |-> pMenu.pItems[i].pSubMenu,
         pApplication |-> pMenu.pItems[i].pApplication]]]

\* a menu the application hands to the driver
DrawnMenu(n, period, reservedAreas, nCurrentItem, nScreen) ==
  [pItems |-> DrawnItems(n, period), pParentMenu |-> NULL,
   nMenuItems |-> n, nCurrentItem |-> nCurrentItem, nSelectedItem |-> -1,
   nScreen |-> nScreen, reservedAreas |-> reservedAreas]

\* the positions the menu system leaves a menu in: the current item is an
\* enabled item (item 0 in a menu without items), the screen shown is the
\* screen of the current item or a screen of the menu with no enabled item.
\* The application may also have set nScreen to the screen after the last one,
\* which holds no item.  With every page of 1..7 reserved no item has a screen
\* and the menu system has not moved the menu.
DrawnWell(pMenu) ==
  /\ IF pMenu.nMenuItems = 0
     THEN pMenu.nCurrentItem = 0
     ELSE pMenu.nCurrentItem \in
            {i \in 0..(pMenu.nMenuItems - 1) : ~pMenu.pItems[i + 1].disabled}
  /\ IF determineItemsPerScreen(pMenu) = 0
     THEN pMenu.nScreen = 0
     ELSE IF pMenu.nMenuItems = 0
     THEN pMenu.nScreen <= 1
     ELSE /\ pMenu.nScreen <= menuGetScreen(pMenu, pMenu.nMenuItems - 1) + 1
          /\ \/ pMenu.nScreen = menuGetScreen(pMenu, pMenu.nCurrentItem)
             \/ \A i \in 0..(pMenu.nMenuItems - 1) :
                  menuGetScreen(pMenu, i) = pMenu.nScreen =>
                    pMenu.pItems[i + 1].disabled

\* the driver is given a menu of up to MaxDrawnItems items to draw, with any
\* reservedAreas, in any of the positions the menu system leaves it in
DriverInit ==
  /\ \E n \in 0..MaxDrawnItems, period \in ExtendPeriods, ra \in 0..255 :
       \E c \in 0..(IF n = 0 THEN 0 ELSE n - 1), s \in 0..(IF n = 0 THEN 1 ELSE n) :
         LET sub == DrawnMenu(n, period, ra, c, s)
         IN  /\ DrawnWell(sub)
             /\ menu = [m \in Menus |->
                          CASE m = "Main" -> NoExtend(MainMenu)
                            [] m = "Leaf" -> NoExtend(LeafMenu)
                            [] m = "Sub" -> sub]
  /\ last = Call("none", NULL, 0, 0)
  /\ pPrevMenu = NULL

\* the application has menu[self] drawn: the record of the call keeps the
\* calls menuWriteBuffer made
WriteBuffer(self) ==
  /\ last' = Call("menuWriteBuffer", self, menuWriteBuffer(menu[self]), 0)
  /\ UNCHANGED <<menu, pPrevMenu>>

DriverNext == \E self \in Menus : WriteBuffer(self)

DriverSpec == DriverInit /\ [][DriverNext]_vars

(***************************************************************************)
(* The vocabulary of the properties, as the specification defines it.      *)
(***************************************************************************)
\* itemsPerScreen = fixed capacity - count(reserved rows excluding the header)
ItemsPerScreen(pMenu) ==
  7 - Cardinality({row \in 1..7 : BitSet(pMenu.reservedAreas, row)})

\* screenOf(item) = item index / itemsPerScreen
ScreenOf(pMenu, nItem) == nItem \div ItemsPerScreen(pMenu)

\* the (currentItem, currentScreen) pair of a menu
Cursor(pMenu) == <<pMenu.nCurrentItem, pMenu.nScreen>>

\* the current item is on the screen shown
OnScreen(pMenu) == ScreenOf(pMenu, pMenu.nCurrentItem) = pMenu.nScreen

\* the enabled items of the screen shown
EnabledOnScreen(pMenu) ==
  {i \in EnabledItems(pMenu) : ScreenOf(pMenu, i) = pMenu.nScreen}

Lowest(S) == CHOOSE i \in S : \A j \in S : i <= j

Greatest(S) == CHOOSE i \in S : \A j \in S : j <= i

\* the step is a call of op on the menu m
Called(op, m) == last'.op = op /\ last'.menu = m

(***************************************************************************)
(* C1 *)
(***************************************************************************)
\* C1: in every reachable state the current item of every menu is an enabled
\* item, or the menu has no enabled item.
C1_CurrentItemEnabled ==
  \A m \in Menus :
    \/ EnabledItems(menu[m]) = {}
    \/ menu[m].nCurrentItem \in EnabledItems(menu[m])

\* menuBack has put the submenu, which has a disabled item below the
\* selected one, back on its selected item after the cursor had left it
C1_Witness ==
  /\ last.op = "menuBack" /\ last.menu = "Sub" /\ last.ret = "Main"
  /\ menu["Sub"].nSelectedItem > 0
  /\ menu["Sub"].nCurrentItem = menu["Sub"].nSelectedItem
  /\ menu["Sub"].pItems[menu["Sub"].nSelectedItem].disabled

(***************************************************************************)
(* C2 *)
(***************************************************************************)
\* C2 as stated: in every reachable state the current screen of every menu is
\* the screen of its current item.
C2_ScreenOfCurrentItem == \A m \in Menus : OnScreen(menu[m])

\* C2, amended: in every reachable state the current screen of every menu is
\* the screen of its current item or a screen with no enabled item.
C2_ScreenOfCurrentItemOrEmpty ==
  \A m \in Menus : OnScreen(menu[m]) \/ EnabledOnScreen(menu[m]) = {}

\* menuDown has moved the submenu to a screen of disabled items only, the
\* current item staying behind on the screen before
C2_Witness ==
  /\ last.op = "menuDown" /\ last.menu = "Sub" /\ last.ret = 1
  /\ ~OnScreen(menu["Sub"])
  /\ EnabledItems(menu["Sub"]) # {}
  /\ menu["Sub"].nScreen * ItemsPerScreen(menu["Sub"]) < menu["Sub"].nMenuItems

(***************************************************************************)
(* C3 *)
(***************************************************************************)
\* C3: after menuPositionTop the current screen is 0 and the current item is
\* the lowest enabled item or, when no item is enabled, the item it was.
C3_PositionTop ==
  [][\A m \in Menus :
       Called("menuPositionTop", m) =>
         /\ menu'[m].nScreen = 0
         /\ menu'[m].nCurrentItem =
              IF EnabledItems(menu[m]) # {}
              THEN Lowest(EnabledItems(menu[m]))
              ELSE menu[m].nCurrentItem]_vars

\* menuPositionTop has brought the submenu from a later screen to screen
\* 0, its lowest enabled item on a later screen
C3_Witness ==
  /\ last.op = "menuPositionTop" /\ last.menu = "Sub"
  /\ menu["Sub"].nScreen = 0
  /\ EnabledItems(menu["Sub"]) # {}
  /\ menu["Sub"].nCurrentItem = Lowest(EnabledItems(menu["Sub"]))
  /\ ~OnScreen(menu["Sub"])

(***************************************************************************)
(* C4 *)
(***************************************************************************)
\* menuDown then menuUp, and menuUp then menuDown, bring pMenu back to its
\* (currentItem, currentScreen) pair
Reverses(pMenu) ==
  /\ Cursor(menuUp(menuDown(pMenu).menu).menu) = Cursor(pMenu)
  /\ Cursor(menuDown(menuUp(pMenu).menu).menu) = Cursor(pMenu)

\* menuUp and menuDown would both report 'changed'
BothWays(pMenu) == menuUp(pMenu).ret = 1 /\ menuDown(pMenu).ret = 1

\* C4 as stated: from every reachable cursor position where menuUp and
\* menuDown would both report 'changed', menuDown then menuUp, and menuUp then
\* menuDown, return to the original (currentItem, currentScreen) pair.
C4_Reversible ==
  \A m \in Menus : BothWays(menu[m]) => Reverses(menu[m])

\* C4, amended: the same, from every reachable cursor position where in
\* addition the current item is on the current screen.
C4_ReversibleOnScreen ==
  \A m \in Menus :
    BothWays(menu[m]) /\ OnScreen(menu[m]) => Reverses(menu[m])

\* the cursor of the submenu has been moved onto an item that is on the screen
\* shown, from where menuDown crosses to the next screen and menuUp moves on
\* the screen
C4_Witness ==
  /\ last.op = "menuDown" /\ last.menu = "Sub" /\ last.ret = 1
  /\ BothWays(menu["Sub"]) /\ OnScreen(menu["Sub"])
  /\ menuDown(menu["Sub"]).menu.nScreen # menu["Sub"].nScreen
  /\ menuDown(menu["Sub"]).menu.nCurrentItem # menu["Sub"].nCurrentItem
  /\ menuUp(menu["Sub"]).menu.nScreen = menu["Sub"].nScreen

(***************************************************************************)
(* C5 *)
(***************************************************************************)
\* the enabled items below the current item
EnabledBelow(pMenu) == {i \in EnabledItems(pMenu) : i < pMenu.nCurrentItem}

\* the enabled items above the current item
EnabledAbove(pMenu) == {i \in EnabledItems(pMenu) : i > pMenu.nCurrentItem}

\* C5 as stated: menuUp with a nearest enabled item below the current item, on
\* screen S: when S is the current screen the item becomes current and the
\* screen is kept; when S is the screen before, the item becomes current and
\* the screen is decremented; otherwise only the screen is decremented.
C5_MoveUp ==
  [][\A m \in Menus :
       Called("menuUp", m) /\ EnabledBelow(menu[m]) # {} =>
         LET item == Greatest(EnabledBelow(menu[m]))
             S == ScreenOf(menu[m], item)
         IN  Cursor(menu'[m]) =
               IF S = menu[m].nScreen THEN <<item, menu[m].nScreen>>
               ELSE IF S = menu[m].nScreen - 1 THEN <<item, menu[m].nScreen - 1>>
               ELSE <<menu[m].nCurrentItem, menu[m].nScreen - 1>>]_vars

\* C5, amended: when S is the screen before the current screen, the item
\* becomes current and the screen is decremented only if the current item is
\* not on a screen before the current screen; if it is, only the screen is
\* decremented.
C5_MoveUpFromScreen ==
  [][\A m \in Menus :
       Called("menuUp", m) /\ EnabledBelow(menu[m]) # {} =>
         LET item == Greatest(EnabledBelow(menu[m]))
             S == ScreenOf(menu[m], item)
         IN  Cursor(menu'[m]) =
               IF S = menu[m].nScreen THEN <<item, menu[m].nScreen>>
               ELSE IF /\ S = menu[m].nScreen - 1
                       /\ ScreenOf(menu[m], menu[m].nCurrentItem)
                            >= menu[m].nScreen
               THEN <<item, menu[m].nScreen - 1>>
               ELSE <<menu[m].nCurrentItem, menu[m].nScreen - 1>>]_vars

\* menuUp has moved the submenu, shown on a screen behind its current item,
\* back to the screen of the current item and has left the current item alone,
\* an enabled item below it on the same screen
C5_Witness ==
  /\ last.op = "menuUp" /\ last.menu = "Sub" /\ last.ret = 1
  /\ OnScreen(menu["Sub"])
  /\ EnabledAbove(menu["Sub"]) = {}
  /\ menu["Sub"].nScreen * ItemsPerScreen(menu["Sub"])
       + ItemsPerScreen(menu["Sub"]) < menu["Sub"].nMenuItems
  /\ EnabledBelow(menu["Sub"]) # {}
  /\ ScreenOf(menu["Sub"], Greatest(EnabledBelow(menu["Sub"])))
       = menu["Sub"].nScreen

(***************************************************************************)
(* C6 *)
(***************************************************************************)
\* lastScreen = screenOf(last item index), 0 for a menu with no item
LastScreen(pMenu) ==
  IF pMenu.nMenuItems = 0 THEN 0 ELSE ScreenOf(pMenu, pMenu.nMenuItems - 1)

\* the cursor after a menuDown that moves the screen only
ScreenDown(pMenu) ==
  <<pMenu.nCurrentItem,
    IF pMenu.nScreen < LastScreen(pMenu) THEN pMenu.nScreen + 1
    ELSE pMenu.nScreen>>

\* C6 as stated: menuDown with the nearest enabled item above the current item
\* on screen S: when S is the current screen the item becomes current and the
\* screen is kept; when S is the next screen the item becomes current and the
\* screen is incremented; otherwise (also with no enabled item above) only the
\* screen is incremented, and only while it is below lastScreen.
C6_MoveDown ==
  [][\A m \in Menus :
       Called("menuDown", m) =>
         Cursor(menu'[m]) =
           IF EnabledAbove(menu[m]) = {} THEN ScreenDown(menu[m])
           ELSE LET item == Lowest(EnabledAbove(menu[m]))
                    S == ScreenOf(menu[m], item)
                IN  IF S = menu[m].nScreen THEN <<item, menu[m].nScreen>>
                    ELSE IF S = menu[m].nScreen + 1
                    THEN <<item, menu[m].nScreen + 1>>
                    ELSE ScreenDown(menu[m])]_vars

\* C6, amended: when S is the screen after the current screen, the item
\* becomes current and the screen is incremented only if the current item is
\* not on a screen after the current screen; if it is, only the screen is
\* incremented.
C6_MoveDownFromScreen ==
  [][\A m \in Menus :
       Called("menuDown", m) =>
         Cursor(menu'[m]) =
           IF EnabledAbove(menu[m]) = {} THEN ScreenDown(menu[m])
           ELSE LET item == Lowest(EnabledAbove(menu[m]))
                    S == ScreenOf(menu[m], item)
                IN  IF S = menu[m].nScreen THEN <<item, menu[m].nScreen>>
                    ELSE IF /\ S = menu[m].nScreen + 1
                            /\ ScreenOf(menu[m], menu[m].nCurrentItem)
                                 <= menu[m].nScreen
                    THEN <<item, menu[m].nScreen + 1>>
                    ELSE ScreenDown(menu[m])]_vars

\* menuDown has moved the submenu, shown on a screen before its current item,
\* on to the screen of the current item and has left the current item alone,
\* an enabled item above it on the same screen
C6_Witness ==
  /\ last.op = "menuDown" /\ last.menu = "Sub" /\ last.ret = 1
  /\ OnScreen(menu["Sub"])
  /\ menu["Sub"].nScreen > 0
  /\ EnabledBelow(menu["Sub"]) = {}
  /\ EnabledAbove(menu["Sub"]) # {}
  /\ ScreenOf(menu["Sub"], Lowest(EnabledAbove(menu["Sub"])))
       = menu["Sub"].nScreen

(***************************************************************************)
(* C7 *)
(***************************************************************************)
\* C7: menuUp and menuDown return 1 exactly when the call changed the
\* (currentItem, currentScreen) pair of the menu, and 0 exactly when it left
\* the pair as it was.
C7_ReturnsChanged ==
  [][\A m \in Menus :
       Called("menuUp", m) \/ Called("menuDown", m) =>
         /\ last'.ret \in {0, 1}
         /\ last'.ret = 1 <=> Cursor(menu'[m]) # Cursor(menu[m])]_vars

\* menuDown has reported 'unchanged' on a submenu of several screens whose
\* items above the current item are all disabled
C7_Witness ==
  /\ last.op = "menuDown" /\ last.menu = "Sub" /\ last.ret = 0
  /\ menu["Sub"].nCurrentItem + 1 < menu["Sub"].nMenuItems
  /\ EnabledAbove(menu["Sub"]) = {}
  /\ EnabledBelow(menu["Sub"]) # {}
  /\ menu["Sub"].nScreen > 0

(***************************************************************************)
(* C8 *)
(***************************************************************************)
\* the cursor state of a menu
CursorState(pMenu) ==
  <<pMenu.nCurrentItem, pMenu.nScreen, pMenu.nSelectedItem>>

\* C8 as stated: on a menu with no enabled item every menuUp and menuDown
\* leaves the cursor state as it is and reports 'unchanged'.
C8_NoEnabledNoOp ==
  [][\A m \in Menus :
       /\ EnabledItems(menu[m]) = {}
       /\ Called("menuUp", m) \/ Called("menuDown", m)
       => CursorState(menu'[m]) = CursorState(menu[m]) /\ last'.ret = 0]_vars

\* C8, amended: on a menu with no enabled item every menuUp and menuDown
\* leaves the current item and the selected item as they are; it leaves the
\* screen too and reports 'unchanged' when no screen is left in its direction
\* (screen 0 for menuUp, lastScreen for menuDown), and otherwise moves the
\* screen by one and reports 'changed'.
C8_NoEnabledScreenOnly ==
  [][\A m \in Menus :
       /\ EnabledItems(menu[m]) = {}
       /\ Called("menuUp", m) \/ Called("menuDown", m)
       => LET toScreen ==
                IF last'.op = "menuUp"
                THEN (IF menu[m].nScreen > 0 THEN menu[m].nScreen - 1
                      ELSE menu[m].nScreen)
                ELSE (IF menu[m].nScreen < LastScreen(menu[m])
                      THEN menu[m].nScreen + 1 ELSE menu[m].nScreen)
          IN  /\ CursorState(menu'[m]) =
                   <<menu[m].nCurrentItem, toScreen, menu[m].nSelectedItem>>
              /\ last'.ret = IF toScreen = menu[m].nScreen THEN 0 ELSE 1]_vars

\* menuDown has reported 'unchanged' on the last screen of a submenu of
\* several screens with no enabled item
C8_Witness ==
  /\ last.op = "menuDown" /\ last.menu = "Sub" /\ last.ret = 0
  /\ EnabledItems(menu["Sub"]) = {}
  /\ menu["Sub"].nScreen = LastScreen(menu["Sub"])
  /\ menu["Sub"].nScreen > 0

(***************************************************************************)
(* C9 *)
(***************************************************************************)
\* C9: no call of menuUp, menuDown, menuPositionTop, menuEnter or menuBack ever
\* changes the current item of a menu whose items are all disabled.
C9_AllDisabledKeepsItem ==
  [][\A m \in Menus :
       EnabledItems(menu[m]) = {} =>
         menu'[m].nCurrentItem = menu[m].nCurrentItem]_vars

\* menuBack has left a submenu whose items are all disabled, and has brought
\* it to screen 0 while its current item stays on a later screen
C9_Witness ==
  /\ last.op = "menuBack" /\ last.menu = "Sub" /\ last.ret = "Main"
  /\ menu["Sub"].nMenuItems > 1
  /\ EnabledItems(menu["Sub"]) = {}
  /\ menu["Sub"].nSelectedItem = -1
  /\ menu["Sub"].nScreen = 0
  /\ ScreenOf(menu["Sub"], menu["Sub"].nCurrentItem) > 0

(***************************************************************************)
(* C10 *)
(***************************************************************************)
\* C10: menuEnter on a menu whose current item is not on the current screen
\* changes neither the selected item nor the current item, calls no callback,
\* changes no parent reference and returns the menu it was called on.
C10_EnterOffScreen ==
  [][\A m \in Menus :
       Called("menuEnter", m) /\ ~OnScreen(menu[m]) =>
         /\ menu'[m].nSelectedItem = menu[m].nSelectedItem
         /\ menu'[m].nCurrentItem = menu[m].nCurrentItem
         /\ last'.called = 0
         /\ \A k \in Menus : menu'[k].pParentMenu = menu[k].pParentMenu
         /\ last'.ret = m]_vars

\* menuEnter has been called on the submenu while it shows a screen of
\* disabled items; its current item, on another screen, has a callback and a
\* submenu that has not been entered, and is not the selected item
C10_Witness ==
  /\ last.op = "menuEnter" /\ last.menu = "Sub" /\ last.ret = "Sub"
  /\ last.called = 0
  /\ ~OnScreen(menu["Sub"])
  /\ menu["Sub"].nCurrentItem < menu["Sub"].nMenuItems
  /\ menu["Sub"].pItems[menu["Sub"].nCurrentItem + 1].pApplication
  /\ menu["Sub"].pItems[menu["Sub"].nCurrentItem + 1].pSubMenu = "Leaf"
  /\ menu["Leaf"].pParentMenu = NULL
  /\ menu["Sub"].nSelectedItem >= 0
  /\ menu["Sub"].nSelectedItem # menu["Sub"].nCurrentItem

C12_HandledStays ==
  \A m \in Menus :
    \A item \in EnterItems(menu[m]) :
      \A appRet \in AppReturns(item) \ {0} :
        OnScreen(menu[m]) /\ item.pApplication =>
          LET r == menuEnter(m, menu[m], item, appRet)
          IN  /\ r.ret = m
              /\ r.linked = NULL
              /\ r.called = 1

\* menuEnter has been called on the top menu with item 0 current, which has a
\* callback and the submenu "Sub": it called the callback once, returned the
\* top menu and "Sub" has no parent
C12_Witness ==
  /\ last.op = "menuEnter" /\ last.menu = "Main"
  /\ last.ret = "Main" /\ last.called = 1
  /\ menu["Main"].nCurrentItem = 0 /\ OnScreen(menu["Main"])
  /\ menu["Main"].pItems[1].pSubMenu = "Sub"
  /\ menu["Sub"].pParentMenu = NULL

(***************************************************************************)
(* C13 *)
(***************************************************************************)
\* C13: menuEnter on a menu M whose current item is on the screen shown, has a
\* submenu S and has no callback or one that returns 0, returns S and writes
\* M to the pParentMenu of S; after a menuEnter on M that returned another
\* menu S the pParentMenu of S is M, whatever it was before, and a menuBack on
\* S that follows returns M.
C13_EnterBack ==
  /\ [](\A m \in Menus :
         \A item \in EnterItems(menu[m]) :
           \A appRet \in AppReturns(item) :
             /\ OnScreen(menu[m])
             /\ item.pSubMenu # NULL
             /\ ~item.pApplication \/ appRet = 0
             => LET r == menuEnter(m, menu[m], item, appRet)
                IN  r.ret = item.pSubMenu /\ r.linked = item.pSubMenu)
  /\ [][\A m \in Menus :
          /\ Called("menuEnter", m) /\ last'.ret # m =>
               menu'[last'.ret].pParentMenu = m
          /\ /\ Called("menuBack", m)
             /\ last.op = "menuEnter" /\ last.ret = m /\ last.menu # m
             => last'.ret = last.menu]_vars

\* menuBack on the menu "Leaf", which the top menu opens too, has returned the
\* submenu "Sub": "Leaf" was entered from "Sub"
C13_Witness ==
  /\ last.op = "menuBack" /\ last.menu = "Leaf" /\ last.ret = "Sub"
  /\ menu["Leaf"].pParentMenu = "Sub"
  /\ menu["Sub"].nMenuItems > 0

(***************************************************************************)
(* C14 *)
(***************************************************************************)
\* C14: menuBack on a menu that has a parent returns the parent and leaves the
\* menu at the top (screen 0, lowest enabled item if there is one) when its
\* nSelectedItem is -1, with nCurrentItem and nScreen as they were when it is
\* -2, and on the selected item and the screen of the selected item
\* otherwise; nSelectedItem and the cursor fields of the parent do not change.
C14_BackToParent ==
  [][\A m \in Menus :
       Called("menuBack", m) /\ menu[m].pParentMenu # NULL =>
         LET pMenu == menu[m]
             pParentMenu == pMenu.pParentMenu
         IN  /\ last'.ret = pParentMenu
             /\ menu'[m].nSelectedItem = pMenu.nSelectedItem
             /\ Cursor(menu'[m]) =
                  CASE pMenu.nSelectedItem = -1 ->
                         <<IF EnabledItems(pMenu) = {}
                           THEN pMenu.nCurrentItem
                           ELSE Lowest(EnabledItems(pMenu)), 0>>
                    [] pMenu.nSelectedItem = -2 -> Cursor(pMenu)
                    [] OTHER -> <<pMenu.nSelectedItem,
                                  ScreenOf(pMenu, pMenu.nSelectedItem)>>
             /\ CursorState(menu'[pParentMenu]) =
                  CursorState(menu[pParentMenu])]_vars

\* menuBack has left the submenu "Sub", which keeps nSelectedItem = -2, for
\* the top menu with the cursor of "Sub" below the top
C14_Witness ==
  /\ last.op = "menuBack" /\ last.menu = "Sub" /\ last.ret = "Main"
  /\ menu["Sub"].nSelectedItem = -2
  /\ menu["Sub"].nCurrentItem > 0 /\ menu["Sub"].nScreen > 0

(***************************************************************************)
(* C15 *)
(***************************************************************************)
\* C15: menuBack on a menu whose pParentMenu is null returns the same menu and
\* changes none of nCurrentItem, nScreen and nSelectedItem.
C15_BackAtRoot ==
  [][\A m \in Menus :
       Called("menuBack", m) /\ menu[m].pParentMenu = NULL =>
         /\ last'.ret = m
         /\ CursorState(menu'[m]) = CursorState(menu[m])]_vars

\* menuBack has been called on the submenu "Sub" before any menu entered it:
\* it returned "Sub", whose cursor is still away from the top and from the
\* selected item
C15_Witness ==
  /\ last.op = "menuBack" /\ last.menu = "Sub" /\ last.ret = "Sub"
  /\ menu["Sub"].pParentMenu = NULL
  /\ menu["Sub"].nSelectedItem >= 0
  /\ menu["Sub"].nCurrentItem # menu["Sub"].nSelectedItem

(***************************************************************************)
(* C16 *)
(***************************************************************************)
\* the lists of menus in which each menu but the last has the next one as its
\* parent
ParentChains ==
  {chain \in UNION {[1..n -> Menus] : n \in 1..MenuCount} :
     \A i \in 1..(Len(chain) - 1) : menu[chain[i]].pParentMenu = chain[i + 1]}

\* C16: a call of menuTop changes no field of any menu, and the menu it
\* returns has no parent and is reached from the menu it was called on by
\* following parent references.
C16_TopIsRoot ==
  [][\A m \in Menus :
       Called("menuTop", m) =>
         /\ menu' = menu
         /\ last'.ret # NULL =>
              /\ menu[last'.ret].pParentMenu = NULL
              /\ \E chain \in ParentChains :
                   chain[1] = m /\ chain[Len(chain)] = last'.ret]_vars

\* menuTop has been called on "Leaf", entered from "Sub", entered from the top
\* menu: it returned the top menu, two parents up
C16_Witness ==
  /\ last.op = "menuTop" /\ last.menu = "Leaf" /\ last.ret = "Main"
  /\ menu["Leaf"].pParentMenu = "Sub"
  /\ menu["Sub"].pParentMenu = "Main"
  /\ menu["Main"].pParentMenu = NULL

(***************************************************************************)
(* C17 *)
(***************************************************************************)
\* the quantity the claim measures the position of a menu with
Position(pMenu) == pMenu.nCurrentItem + pMenu.nScreen

\* every menuUp that reports 'changed' lowers nCurrentItem + nScreen, which is
\* never below 0: the loop of menuPositionTop ends
UpLoopEnds ==
  \A m \in Menus :
    LET r == menuUp(menu[m])
    IN  /\ Position(menu[m]) >= 0
        /\ r.ret # 0 => Position(r.menu) < Position(menu[m])

\* every menuDown that reports 'changed' raises nCurrentItem + nScreen, which
\* is never above the number of items plus the last screen: repeated menuDown
\* comes to report 'unchanged'
DownLoopEnds ==
  \A m \in Menus :
    LET r == menuDown(menu[m])
    IN  /\ Position(menu[m]) <= menu[m].nMenuItems + LastScreen(menu[m])
        /\ r.ret # 0 => Position(r.menu) > Position(menu[m])

C18_WritesCursorOnly ==
  [][\A m \in Menus :
       last'.menu = m =>
         \A k \in Menus :
           /\ menu'[k].pItems = menu[k].pItems
           /\ menu'[k].nMenuItems = menu[k].nMenuItems
           /\ menu'[k].reservedAreas = menu[k].reservedAreas
           /\ k # m => CursorState(menu'[k]) = CursorState(menu[k])
           /\ menu'[k].pParentMenu # menu[k].pParentMenu =>
                /\ last'.op = "menuEnter"
                /\ last'.ret = k
                /\ menu'[k].pParentMenu = m]_vars

\* menuEnter on the top menu, item 1 current, has opened "Leaf" while the
\* submenu "Sub", entered before, has its cursor below the top
C18_Witness ==
  /\ last.op = "menuEnter" /\ last.menu = "Main" /\ last.ret = "Leaf"
  /\ menu["Main"].nCurrentItem = 1
  /\ menu["Leaf"].pParentMenu = "Main"
  /\ menu["Sub"].pParentMenu = "Main"
  /\ menu["Sub"].nCurrentItem > 0

(***************************************************************************)
(* C19 *)
(***************************************************************************)
\* the printItem calls among the calls made, in order
Printed(calls) == SelectSeq(calls, LAMBDA c : c.call = "printItem")

\* C19: for the reservedAreas of every menu drawn, determineItemsPerScreen is
\* 7 less the number of bits set among bits 1..7; it is one less with one
\* more of the bits 1..7 set, and the same with bit 0 the other way.
C19_ItemsPerScreen ==
  \A m \in Menus :
    LET pMenu == menu[m]
        reservedAreas == pMenu.reservedAreas
        perScreen(ra) ==
          determineItemsPerScreen([pMenu EXCEPT !.reservedAreas = ra])
    IN  /\ perScreen(reservedAreas) =
             7 - Cardinality({bit \in 1..7 : BitSet(reservedAreas, bit)})
        /\ \A bit \in 1..7 :
             ~BitSet(reservedAreas, bit) =>
               perScreen(reservedAreas + 2 ^ bit) = perScreen(reservedAreas) - 1
        /\ perScreen(IF BitSet(reservedAreas, 0)
                     THEN reservedAreas - 1
                     ELSE reservedAreas + 1) = perScreen(reservedAreas)

\* a menu of 8 items with the header and the pages 2 and 4 reserved has been
\* drawn on its first screen: 5 items were printed
C19_Witness ==
  /\ last.op = "menuWriteBuffer" /\ last.menu = "Sub"
  /\ menu["Sub"].reservedAreas = 21
  /\ menu["Sub"].nMenuItems = 8 /\ menu["Sub"].nScreen = 0
  /\ Len(Printed(last.ret)) = 5

(***************************************************************************)
(* C20 *)
(***************************************************************************)
\* the pages of 1..7 that are not reserved
FreePages(pMenu) == {page \in 1..7 : ~BitSet(pMenu.reservedAreas, page)}

\* C20: after menuWriteBuffer the items printed are the items of the menu on
\* the screen shown, from item nScreen * itemsPerScreen on, one after the
\* other, the k-th of them on the k-th page of 1..7 that is not reserved; the
\* number of such pages is itemsPerScreen.
C20_ItemsDrawn ==
  last.op = "menuWriteBuffer" =>
    LET pMenu == menu[last.menu]
        printed == Printed(last.ret)
    IN  /\ Cardinality(FreePages(pMenu)) = ItemsPerScreen(pMenu)
        /\ ItemsPerScreen(pMenu) > 0 =>
             {printed[k].nItem : k \in 1..Len(printed)} =
               {i \in 0..(pMenu.nMenuItems - 1) :
                  ScreenOf(pMenu, i) = pMenu.nScreen}
        /\ \A k \in 1..Len(printed) :
             /\ printed[k].nItem =
                  pMenu.nScreen * ItemsPerScreen(pMenu) + k - 1
             /\ printed[k].page \in FreePages(pMenu)
             /\ Cardinality({page \in FreePages(pMenu) :
                               page < printed[k].page}) = k - 1

\* a menu of 8 items with the pages 3, 5 and 6 reserved has been drawn on its
\* second screen: the items 4..7 were printed on the pages 1, 2, 4 and 7
C20_Witness ==
  /\ last.op = "menuWriteBuffer" /\ last.menu = "Sub"
  /\ menu["Sub"].reservedAreas = 104
  /\ menu["Sub"].nMenuItems = 8 /\ menu["Sub"].nScreen = 1
  /\ Printed(last.ret) =
       <<printItem(4, 1), printItem(5, 2), printItem(6, 4), printItem(7, 7)>>

(***************************************************************************)
(* C21 *)
(***************************************************************************)
\* the calls of the function named among the calls made, in order
CallsOf(calls, name) == SelectSeq(calls, LAMBDA c : c.call = name)

\* C21: after menuWriteBuffer each page of 1..7 that is not reserved has been
\* cleared once and no reserved page has been cleared; every item printed,
\* page inverted and region inverted is on a page that is not reserved, and
\* every horizontal line set or cleared borders the top of such a page; page
\* 0 is cleared and the header printed when bit 0 is clear, and only then.
C21_RowsCleared ==
  last.op = "menuWriteBuffer" =>
    LET pMenu == menu[last.menu]
        calls == last.ret
        cleared == CallsOf(calls, "lcdBufferClearPage")
        header == ~BitSet(pMenu.reservedAreas, 0)
    IN  /\ \A page \in 1..7 :
             Cardinality({k \in 1..Len(cleared) : cleared[k].page = page}) =
               IF page \in FreePages(pMenu) THEN 1 ELSE 0
        /\ \A k \in 1..Len(calls) :
             IF calls[k].call = "printHeader" \/ calls[k].page = 0
             THEN header
             ELSE calls[k].page \in FreePages(pMenu)
        /\ header =>
             /\ Len(calls) >= 2
             /\ calls[1] = lcdBufferClearPage(0)
             /\ calls[2] = printHeader
        /\ Len(CallsOf(calls, "printHeader")) = IF header THEN 1 ELSE 0

\* a menu of 2 items with the header and the pages 2 and 4 reserved has been
\* drawn: no header, the items on the pages 1 and 3, the pages 5, 6 and 7
\* cleared, the lines above the pages 3 and 5 cleared
C21_Witness ==
  /\ last.op = "menuWriteBuffer" /\ last.menu = "Sub"
  /\ menu["Sub"].reservedAreas = 21
  /\ last.ret = <<lcdBufferClearPage(1), printItem(0, 1),
                  lcdBufferSetHLine(1), lcdBufferInvertPage(1),
                  lcdBufferClearPage(3), printItem(1, 3),
                  lcdBufferClearHLine(3),
                  lcdBufferClearPage(5), lcdBufferClearHLine(5),
                  lcdBufferClearPage(6), lcdBufferClearPage(7)>>

(***************************************************************************)
(* C22 *)
(***************************************************************************)
\* the call c is among the calls made
Made(calls, c) == \E k \in 1..Len(calls) : calls[k] = c

\* C22: after menuWriteBuffer the separator line is set above a page and the
\* page inverted over its full width exactly when the page carries the item
\* of index nCurrentItem; this happens on at most one page, and on none when
\* the screen of the current item is not the screen shown.
C22_CurrentRowMarked ==
  last.op = "menuWriteBuffer" =>
    LET pMenu == menu[last.menu]
        calls == last.ret
    IN  /\ \A page \in 0..7 :
             /\ Made(calls, lcdBufferSetHLine(page))
                  <=> Made(calls, printItem(pMenu.nCurrentItem, page))
             /\ Made(calls, lcdBufferInvertPage(page))
                  <=> Made(calls, printItem(pMenu.nCurrentItem, page))
        /\ Len(CallsOf(calls, "lcdBufferSetHLine")) <= 1
        /\ Len(CallsOf(calls, "lcdBufferInvertPage")) <= 1
        /\ ItemsPerScreen(pMenu) > 0 /\ ~OnScreen(pMenu) =>
             /\ CallsOf(calls, "lcdBufferSetHLine") = <<>>
             /\ CallsOf(calls, "lcdBufferInvertPage") = <<>>

\* a screen of three items has been drawn with the current item in the middle
C22_Witness ==
  /\ last.op = "menuWriteBuffer"
  /\ menu[last.menu].nCurrentItem = 4
  /\ menu[last.menu].reservedAreas = 240
  /\ CallsOf(last.ret, "lcdBufferSetHLine") = <<lcdBufferSetHLine(2)>>
  /\ CallsOf(last.ret, "lcdBufferInvertPage") = <<lcdBufferInvertPage(2)>>
  /\ Len(Printed(last.ret)) = 3


(***************************************************************************)
(* C23 *)
(***************************************************************************)
\* the master of the extend item nItem: the greatest lower index whose flag
\* M_EXTEND is clear
Master(pMenu, nItem) ==
  Greatest({j \in 0..(nItem - 1) : ~pMenu.pItems[j + 1].extend})

\* C23: after menuWriteBuffer, for every item printed that has the flag
\* M_EXTEND the region of its page has been inverted exactly when the greatest
\* lower index with the flag clear is nCurrentItem; no other region has been
\* inverted.
C23_ExtendFollowsMaster ==
  last.op = "menuWriteBuffer" =>
    LET pMenu == menu[last.menu]
        calls == last.ret
    IN  /\ \A nItem \in 0..(pMenu.nMenuItems - 1), page \in 1..7 :
             Made(calls, printItem(nItem, page)) =>
               (Made(calls, lcdBufferInvert(page))
                  <=> /\ pMenu.pItems[nItem + 1].extend
                      /\ Master(pMenu, nItem) = pMenu.nCurrentItem)
        /\ \A page \in 0..7 :
             Made(calls, lcdBufferInvert(page)) =>
               \E nItem \in 0..(pMenu.nMenuItems - 1) :
                 Made(calls, printItem(nItem, page))

\* seven items have been drawn with the item 3 current: the rows of its two
\* extend items 4 and 5 are inverted, the rows of the extend items 1 and 2
\* of the item 0 are not
C23_Witness ==
  /\ last.op = "menuWriteBuffer"
  /\ menu[last.menu].nCurrentItem = 3
  /\ menu[last.menu].pItems[2].extend
  /\ Len(Printed(last.ret)) = 7
  /\ CallsOf(last.ret, "lcdBufferInvert")
       = <<lcdBufferInvert(5), lcdBufferInvert(6)>>


(***************************************************************************)
(* C24 *)
(***************************************************************************)
\* the pages of 1..7 that are not reserved and lie after the page page
FreeAfter(pMenu, page) == {p \in FreePages(pMenu) : p > page}

\* C24: for every menu and every page of 0..7, getNextPage returns 0 when no
\* page that is not reserved lies after the page, and the first such page of
\* 1..7 otherwise; after menuWriteBuffer every call made is addressed to a
\* page of 0..7, every item printed to a page of 1..7, and no item is printed
\* when the screen shown lies after the last item.
C24_PagesInRange ==
  /\ \A m \in Menus, page \in 0..7 :
       getNextPage(menu[m], page) =
         IF FreeAfter(menu[m], page) = {}
         THEN 0
         ELSE Lowest(FreeAfter(menu[m], page))
  /\ last.op = "menuWriteBuffer" =>
       LET pMenu == menu[last.menu]
           calls == last.ret
       IN  /\ \A k \in 1..Len(calls) :
                /\ calls[k].page \in 0..7
                /\ calls[k].call = "printItem" =>
                     /\ calls[k].page \in 1..7
                     /\ calls[k].nItem \in 0..(pMenu.nMenuItems - 1)
           /\ pMenu.nScreen * ItemsPerScreen(pMenu) >= pMenu.nMenuItems =>
                /\ Printed(calls) = <<>>
                /\ Len(CallsOf(calls, "lcdBufferClearPage")) =
                     Cardinality(FreePages(pMenu))
                       + (IF BitSet(pMenu.reservedAreas, 0) THEN 0 ELSE 1)

\* a menu of 4 items with 2 free pages has been drawn with nScreen after the
\* last screen: no item is printed, the two free pages are cleared, and so
\* are the lines above them, which border reserved pages
C24_Witness ==
  /\ last.op = "menuWriteBuffer"
  /\ menu[last.menu].nMenuItems = 4
  /\ menu[last.menu].nScreen = 2
  /\ menu[last.menu].reservedAreas = 125
  /\ last.ret = <<lcdBufferClearPage(1), lcdBufferClearHLine(1),
                  lcdBufferClearPage(7), lcdBufferClearHLine(7)>>


(***************************************************************************)
(* menuDisplay (util_menu_driver.c, built with MENU_ANIMATED and without   *)
(* MENU_DMA) and the application around it: a key handler calls one        *)
(* function of the menu system on the menu on display and then displays    *)
(* the menu that function returned.  Specification DisplaySpec.            *)
(***************************************************************************)
\* greatest number of items of the submenu "Sub" under DisplaySpec
MaxShownItems == 2

\* tLcdMotion
eLcdNoMotion == "eLcdNoMotion"

eLcdSlideLeft == "eLcdSlideLeft"

eLcdSlideRight == "eLcdSlideRight"

\* the calls menuDisplay makes to the lcd driver besides menuWriteBuffer's
lcdBufferCopy == [call |-> "lcdBufferCopy"]

lcdSendBufferAnimated(motion) ==
  [call |-> "lcdSendBufferAnimated", motion |-> motion]

lcdSendBuffer == [call |-> "lcdSendBuffer"]

\* the header printHeader prints when the menu has no pTextHeader and no parent
MainMenuTitle == "Main Menu"

\* the text pTextDescription of the item nItem of the menu m
ItemText(m, nItem) == m \o " item " \o ToString(nItem)

\* the menu pMenu at address m with its texts: the header pTextHeader (NULL
\* for none) and a description for every item; M_EXTEND is clear in all items
WithTexts(m, pMenu, pTextHeader) ==
  [pItems |->
     [i \in 1..Len(pMenu.pItems) |->
        [disabled |-> pMenu.pItems[i].disabled, extend |-> FALSE,
         pSubMenu |-> pMenu.pItems[i].pSubMenu,
         pApplication |-> pMenu.pItems[i].pApplication,
         pTextDescription |-> ItemText(m, i - 1)]],
   pParentMenu |-> pMenu.pParentMenu, pTextHeader |-> pTextHeader,
   nMenuItems |-> pMenu.nMenuItems, nCurrentItem |-> pMenu.nCurrentItem,
   nSelectedItem |-> pMenu.nSelectedItem, nScreen |-> pMenu.nScreen,
   reservedAreas |-> pMenu.reservedAreas]

\* a slip: the description of the item that led into the menu is not used
prefTitle_default(heap, self) ==
  IF heap[self].pTextHeader # NULL
  THEN heap[self].pTextHeader
  ELSE MainMenuTitle

\* printHeader, the choice of prefTitle for the menu at address self in the
\* menus heap: NULL when menuTop does not return
prefTitle(heap, self) ==
  LET pMenu == heap[self]
  IN  IF pMenu.pTextHeader # NULL
      THEN pMenu.pTextHeader
      ELSE IF pMenu.pParentMenu # NULL
      THEN IF menuTop(heap, self) = NULL
           THEN NULL
           ELSE LET pTopMenu == heap[menuTop(heap, self)]
                    nCurrentItem == ToInt8(pTopMenu.nCurrentItem)
                IN  pTopMenu.pItems[nCurrentItem + 1].pTextDescription
      ELSE MainMenuTitle

\* the title of the header menuWriteBuffer prints for the menu at address
\* self: "" when the page 0 is reserved and no header is printed
HeaderTitle(heap, self) ==
  IF ~BitSet(heap[self].reservedAreas, 0) THEN prefTitle(heap, self) ELSE ""

\* a slip: menuDisplay slides whenever the menu has a parent
Motions_always(heap, pMenu, pPrev) ==
  IF heap[pMenu].pParentMenu = pPrev \/ heap[pMenu].pParentMenu # NULL
  THEN {eLcdSlideLeft}
  ELSE IF pPrev = NULL
  THEN {eLcdSlideRight, eLcdNoMotion}
  ELSE IF heap[pPrev].pParentMenu = pMenu
  THEN {eLcdSlideRight}
  ELSE {eLcdNoMotion}

\* the motion menuDisplay chooses for the menu at address pMenu when the menu
\* displayed last is pPrev; when pPrev is null and the menu has a parent,
\* pPrevMenu->pParentMenu is read through a null pointer and either of the
\* last two branches may be taken
Motions(heap, pMenu, pPrev) ==
  IF heap[pMenu].pParentMenu = pPrev
  THEN {eLcdSlideLeft}
  ELSE IF pPrev = NULL
  THEN {eLcdSlideRight, eLcdNoMotion}
  ELSE IF heap[pPrev].pParentMenu = pMenu
  THEN {eLcdSlideRight}
  ELSE {eLcdNoMotion}

\* void menuDisplay(const menu_t *pMenu) with the motion chosen: the calls it
\* makes to the lcd driver, in order
menuDisplay(heap, pMenu, motion) ==
  (IF motion # eLcdNoMotion THEN <<lcdBufferCopy>> ELSE <<>>)
  \o menuWriteBuffer(heap[pMenu])
  \o (IF motion # eLcdNoMotion
      THEN <<lcdSendBufferAnimated(motion)>>
      ELSE <<>>)
  \o <<lcdSendBuffer>>

\* the record of a call of menuDisplay: the menu displayed, whether the call
\* has returned, the calls made, the motion chosen, the title of the header,
\* and the key handler that made the call: the function of the menu system it
\* called first ("none" when it called none) and the menu it called it on
Shown(key, from, pMenu, returned, calls, motion, title) ==
  [op |-> "menuDisplay", menu |-> pMenu, ret |-> calls, called |-> 0,
   returned |-> returned, key |-> key, from |-> from, motion |-> motion,
   title |-> title]

\* a menu is on display: menuDisplay has been called and has returned
Displayed == last.op = "menuDisplay" /\ last.returned

\* the end of a key handler: menuDisplay(&heap[pMenu]), where heap is the
\* menus as the handler has left them.  The call does not return when the
\* loop of menuTop in printHeader does not end; pPrevMenu is then not written.
Show(heap, key, from, pMenu) ==
  IF HeaderTitle(heap, pMenu) = NULL
  THEN /\ last' = Shown(key, from, pMenu, FALSE, <<>>, NULL, NULL)
       /\ pPrevMenu' = pPrevMenu
  ELSE \E motion \in Motions(heap, pMenu, pPrevMenu) :
         /\ last' = Shown(key, from, pMenu, TRUE,
                          menuDisplay(heap, pMenu, motion), motion,
                          HeaderTitle(heap, pMenu))
         /\ pPrevMenu' = pMenu

DisplayInit ==
  /\ \E n \in 0..MaxShownItems :
       \E d \in [1..n -> BOOLEAN], ra \in ReservedChoices,
          c \in 0..(MaxShownItems - 1), s \in -2..(MaxShownItems - 1),
          header \in [Menus -> BOOLEAN] :
         LET sub == SubMenu(d, ra, c, s)
             pTextHeader(m) == IF header[m] THEN m \o " header" ELSE NULL
         IN  /\ StartsWell(sub)
             /\ menu = [m \in Menus |->
                          WithTexts(m,
                                    CASE m = "Main" -> MainMenu
                                      [] m = "Leaf" -> LeafMenu
                                      [] m = "Sub" -> sub,
                                    pTextHeader(m))]
  /\ last = Call("none", NULL, 0, 0)
  /\ pPrevMenu = NULL

\* the application starts: it displays the top menu
Start ==
  /\ last.op = "none"
  /\ UNCHANGED menu
  /\ Show(menu, "none", NULL, "Main")

\* the up key: menuUp on the menu on display, which is displayed again
KeyUp ==
  /\ Displayed
  /\ LET self == last.menu
         r == menuUp(menu[self])
         heap == [menu EXCEPT ![self] = r.menu]
     IN  /\ menu' = heap
         /\ Show(heap, "menuUp", self, self)

\* the down key: menuDown on the menu on display, which is displayed again
KeyDown ==
  /\ Displayed
  /\ LET self == last.menu
         r == menuDown(menu[self])
         heap == [menu EXCEPT ![self] = r.menu]
     IN  /\ menu' = heap
         /\ Show(heap, "menuDown", self, self)

\* the enter key: menuEnter on the menu on display; the menu it returns is
\* displayed
KeyEnter ==
  /\ Displayed
  /\ LET self == last.menu
     IN  \E item \in EnterItems(menu[self]) : \E appRet \in AppReturns(item) :
           LET r == menuEnter(self, menu[self], item, appRet)
               entered == [menu EXCEPT ![self] = r.menu]
               heap == IF r.linked # NULL
                       THEN [entered EXCEPT ![r.linked].pParentMenu = self]
                       ELSE entered
           IN  /\ menu' = heap
               /\ Show(heap, "menuEnter", self, r.ret)

\* the back key: menuBack on the menu on display; the menu it returns is
\* displayed
KeyBack ==
  /\ Displayed
  /\ LET self == last.menu
         r == menuBack(self, menu[self])
         heap == [menu EXCEPT ![self] = r.menu]
     IN  /\ menu' = heap
         /\ Show(heap, "menuBack", self, r.ret)

\* the home key: menuTop on the menu on display; the menu it returns is
\* displayed, and none when the loop of menuTop does not end
KeyTop ==
  /\ Displayed
  /\ UNCHANGED menu
  /\ LET self == last.menu
     IN  IF menuTop(menu, self) = NULL
         THEN /\ last' = Call("menuTop", self, NULL, 0)
              /\ UNCHANGED pPrevMenu
         ELSE Show(menu, "menuTop", self, menuTop(menu, self))

\* the application displays the menu on display once more
Redisplay ==
  /\ Displayed
  /\ UNCHANGED menu
  /\ Show(menu, "none", last.menu, last.menu)

DisplayNext ==
  \/ Start
  \/ KeyUp
  \/ KeyDown
  \/ KeyEnter
  \/ KeyBack
  \/ KeyTop
  \/ Redisplay

DisplaySpec == DisplayInit /\ [][DisplayNext]_vars


(***************************************************************************)
(* C26 *)
(***************************************************************************)
\* the menu on display was reached by submenu descent from the menu displayed
\* before: the handler called menuEnter on that menu and got another one
Descended == last.key = "menuEnter" /\ last.menu # last.from

\* the menu on display was reached by back-navigation from the menu displayed
\* before: the handler called menuBack on that menu and got another one
WentBack == last.key = "menuBack" /\ last.menu # last.from

\* C26: whenever menuDisplay has displayed a menu, the motion it chose is
\* slide-left when the menu was reached by submenu descent from the menu
\* displayed before, slide-right when it was reached by back-navigation from
\* it, and none in every other case, the first display and the redisplays of
\* the same menu among them.
C26_Transition ==
  Displayed =>
    last.motion = IF Descended
                  THEN eLcdSlideLeft
                  ELSE IF WentBack
                  THEN eLcdSlideRight
                  ELSE eLcdNoMotion


(***************************************************************************)
(* C25 *)
(***************************************************************************)
\* the calls of menuWriteBuffer among the calls of menuDisplay
Written(calls) ==
  SelectSeq(calls, LAMBDA c : c.call \notin {"lcdBufferCopy",
                                             "lcdSendBufferAnimated",
                                             "lcdSendBuffer"})

\* a step in which the menu on display is displayed again with no change to
\* any menu: two calls of menuDisplay in a row on the same menu
DisplayedAgain ==
  /\ Displayed
  /\ last'.op = "menuDisplay" /\ last'.returned
  /\ last'.menu = last.menu
  /\ menu' = menu

RECURSIVE BelowRoot(_, _, _)
\* the menu directly below the root on the way from the menu pMenu up to the
\* root: the submenu of the root through which the user descended (NULL when
\* the references to the parents lead to no root within hops menus)
BelowRoot(heap, pMenu, hops) ==
  IF heap[pMenu].pParentMenu = NULL \/ hops = 0
  THEN NULL
  ELSE IF heap[heap[pMenu].pParentMenu].pParentMenu = NULL
  THEN pMenu
  ELSE BelowRoot(heap, heap[pMenu].pParentMenu, hops - 1)

\* the descriptions of the items of the root that open the submenu through
\* which the user descended to the menu pMenu
DescendedThrough(heap, pMenu) ==
  LET below == BelowRoot(heap, pMenu, MenuCount)
  IN  IF below = NULL
      THEN {}
      ELSE LET root == heap[heap[below].pParentMenu]
           IN  {root.pItems[i].pTextDescription :
                  i \in {j \in 1..root.nMenuItems :
                           root.pItems[j].pSubMenu = below}}

\* C27: whenever menuDisplay has displayed a menu with a header, the title
\* of the header is the menu's pTextHeader when it has one; if not, for a menu
\* with a parent, the description of the current item of the top ancestor,
\* which is an item of the root through which the user descended; if not,
\* "Main Menu".
C27_HeaderTitle ==
  Displayed /\ ~BitSet(menu[last.menu].reservedAreas, 0) =>
    LET pMenu == menu[last.menu]
    IN  IF pMenu.pTextHeader # NULL
        THEN last.title = pMenu.pTextHeader
        ELSE IF pMenu.pParentMenu # NULL
        THEN /\ last.title \in DescendedThrough(menu, last.menu)
             /\ LET pTopMenu == menu[menuTop(menu, last.menu)]
                IN  last.title =
                      pTopMenu.pItems[pTopMenu.nCurrentItem + 1].pTextDescription
        ELSE last.title = MainMenuTitle

\* the menu "Leaf", which has no pTextHeader, has been displayed after a
\* descent from the top menu through "Sub": its title is the description of
\* the item 0 of the top menu
C27_Witness ==
  /\ Displayed
  /\ last.menu = "Leaf" /\ last.key = "menuEnter" /\ last.from = "Sub"
  /\ menu["Leaf"].pTextHeader = NULL
  /\ menu["Leaf"].pParentMenu = "Sub"
  /\ menu["Sub"].pParentMenu = "Main"
  /\ menu["Sub"].nCurrentItem = 1
  /\ last.title = ItemText("Main", 0)


(***************************************************************************)
(* The layout of an item and of the header (printItem, printHeader,        *)
(* printNavNumbers and determineDecimals of util_menu_driver.c).  A text   *)
(* is a string, a null pointer to a text is NULL; the pointer pValue is    *)
(* <<>> when null and <<v>> when it points to the value v.  The items of   *)
(* LayoutSpec give their floats in millionths; the float a variable holds  *)
(* is the nearest value with a significand of 24 bits, kept as its sign,   *)
(* its whole part and the digits of its decimal fraction.                  *)
(* Specification LayoutSpec.                                               *)
(***************************************************************************)
\* lcd_dogm128_6.h: the display has the columns 0..127
LCD_COLS == 128

\* lcd_dogm128_6.h: the width of a character with its spacing, in pixels
LCD_CHAR_WIDTH == 6

\* lcd_dogm128_6.h: the width of a character without spacing, in pixels
LCD_FONT_WIDTH == 5

\* util_menu_driver.h: the margin at both ends of a line, in pixels
MENU_MARGIN == 2

\* the flags of an item that printItem reads
M_RIGHT == 256

M_CENTER == 512

M_SPLIT == 768

M_FLOAT1 == 1024

M_FLOAT2 == 2048

M_FLOAT3 == 3072

M_FLOAT4 == 4096

M_FLOAT5 == 5120

M_FLOATA == 6144

M_STRING == 7168

\* the millionths in 1.0
Unit == 1000000

\* an integer as the C type int16
ToInt16(n) == ((n + 32768) % 65536) - 32768

\* the C quotient a / b for b > 0: rounded towards 0
Quotient(a, b) == IF a >= 0 THEN a \div b ELSE -((-a) \div b)

Abs(n) == IF n < 0 THEN -n ELSE n

RECURSIVE Power10(_)
Power10(k) == IF k = 0 THEN 1 ELSE 10 * Power10(k - 1)

\* lcdGetStringLength: the number of characters of a text
lcdGetStringLength(text) == Len(text)

\* lcdGetIntLength: the number of characters of an integer printed
lcdGetIntLength(number) == Len(ToString(number))

\* lcdGetFloatLength: the number of characters of a float printed with the
\* given number of decimals: sign, integer part, point and decimals
lcdGetFloatLength(number, decimals) ==
  LET half == 5 * Power10(5 - decimals)
  IN  (IF number < 0 THEN 1 ELSE 0)
      + lcdGetIntLength((Abs(number) + half) \div Unit)
      + (IF decimals > 0 THEN 1 + decimals ELSE 0)

\* the decimal fractions 0.d1 d2 ... are sequences of digits
IsZero(digits) == \A i \in 1..Len(digits) : digits[i] = 0

\* a decimal fraction is more than 0.5
MoreThanHalf(digits) ==
  /\ digits # <<>>
  /\ \/ Head(digits) > 5
     \/ Head(digits) = 5 /\ ~IsZero(Tail(digits))

\* a decimal fraction is 0.5
IsHalf(digits) ==
  digits # <<>> /\ Head(digits) = 5 /\ IsZero(Tail(digits))

\* twice a decimal fraction: the whole part, 0 or 1, before the digits of the
\* fraction
RECURSIVE Twice(_)
Twice(digits) ==
  IF digits = <<>>
  THEN <<0>>
  ELSE LET rest == Twice(Tail(digits))
           d == 2 * Head(digits) + Head(rest)
       IN  <<d \div 10, d % 10>> \o Tail(rest)

\* half of whole + 0.digits for whole 0 or 1: a decimal fraction
RECURSIVE HalfOf(_, _)
HalfOf(whole, digits) ==
  IF digits = <<>>
  THEN IF whole = 1 THEN <<5>> ELSE <<>>
  ELSE LET d == 10 * whole + Head(digits)
       IN  <<d \div 2>> \o HalfOf(d % 2, Tail(digits))

\* the bits of a float's significand
FLT_MANT_DIG == 24

\* the number of bits of a whole number
RECURSIVE BitLength(_)
BitLength(n) == IF n = 0 THEN 0 ELSE 1 + BitLength(n \div 2)

\* the bits of a decimal fraction a float has room for, after the given
\* number of significant bits: bits is their number, fraction their value,
\* rest what they leave of the last bit
RECURSIVE FractionBits(_, _, _, _)
FractionBits(digits, significant, fraction, bits) ==
  IF significant >= FLT_MANT_DIG \/ IsZero(digits)
  THEN [fraction |-> fraction, bits |-> bits, rest |-> digits]
  ELSE LET twice == Twice(digits)
       IN  FractionBits(Tail(twice),
                        IF significant > 0 \/ Head(twice) = 1
                        THEN significant + 1
                        ELSE 0,
                        2 * fraction + Head(twice), bits + 1)

\* the decimal fraction fraction / 2^bits
RECURSIVE Expansion(_, _, _)
Expansion(fraction, bits, digits) ==
  IF bits = 0
  THEN digits
  ELSE Expansion(fraction \div 2, bits - 1, HalfOf(fraction % 2, digits))

RECURSIVE Power2(_)
Power2(k) == IF k = 0 THEN 1 ELSE 2 * Power2(k - 1)

\* the float with the value of the literal (-)whole.digits, rounded to the
\* nearest, a tie to the even significand: its sign, the whole part and the
\* decimal fraction of its value
FloatOf(negative, whole, digits) ==
  LET exact == FractionBits(digits, BitLength(whole), 0, 0)
      odd == IF exact.bits = 0 THEN whole % 2 = 1 ELSE exact.fraction % 2 = 1
      up == MoreThanHalf(exact.rest) \/ (IsHalf(exact.rest) /\ odd)
      fraction == IF up THEN exact.fraction + 1 ELSE exact.fraction
      carry == exact.bits <= 30 /\ fraction = Power2(exact.bits)
  IN  [negative |-> negative,
       whole |-> IF carry THEN whole + 1 ELSE whole,
       fraction |-> IF carry THEN <<>>
                    ELSE Expansion(fraction, exact.bits, <<>>)]

\* the digits of a number below 10^n, n of them
RECURSIVE DigitsOf(_, _)
DigitsOf(number, n) ==
  IF n = 0
  THEN <<>>
  ELSE DigitsOf(number \div 10, n - 1) \o <<number % 10>>

\* the float variable that holds a number of millionths
ToFloat(number) ==
  FloatOf(number < 0, Abs(number) \div Unit, DigitsOf(Abs(number) % Unit, 6))

\* the whole number made of the first k digits of a decimal fraction
RECURSIVE Leading(_, _)
Leading(digits, k) ==
  IF k = 0
  THEN 0
  ELSE 10 * Leading(digits, k - 1) + (IF k <= Len(digits) THEN digits[k] ELSE 0)

\* the digits of a decimal fraction after the first k
Trailing(digits, k) ==
  IF k >= Len(digits) THEN <<>> ELSE SubSeq(digits, k + 1, Len(digits))

\* determineDecimals: decimal_k, that is (int32)(10^k * number) * 10^(5 - k),
\* one more if 10^k * number - (float)decimal_k > 0.5; number is the decimal
\* part, digits its decimal fraction
decimal(digits, k) ==
  LET truncated == Leading(digits, k)
      decimal_k == truncated * Power10(5 - k)
  IN  IF \/ truncated > decimal_k
         \/ truncated = decimal_k /\ MoreThanHalf(Trailing(digits, k))
      THEN decimal_k + 1
      ELSE decimal_k

\* the least number of decimals from which on no decimal changes decimal_k
determineDecimals_first(number) ==
  LET same(k) == decimal(number.fraction, k) = decimal(number.fraction, k + 1)
  IN  IF \A k \in 0..4 : ~same(k)
      THEN 5
      ELSE CHOOSE k \in 0..4 : same(k) /\ \A j \in 0..(k - 1) : ~same(j)

\* static uint8 determineDecimals(float number): the sign is removed, the
\* whole part is taken off, and the decimal_k are compared from decimal_5 down
determineDecimals(number) ==
  LET decimal_(k) == decimal(number.fraction, k)
  IN  IF decimal_(5) # decimal_(4) THEN 5
      ELSE IF decimal_(4) # decimal_(3) THEN 4
      ELSE IF decimal_(3) # decimal_(2) THEN 3
      ELSE IF decimal_(2) # decimal_(1) THEN 2
      ELSE IF decimal_(1) = decimal_(0) THEN 0
      ELSE 1

\* the calls printItem and printHeader make to the lcd driver
lcdBufferPrintString(text, x, page) ==
  [call |-> "lcdBufferPrintString", text |-> text, x |-> x, page |-> page]

lcdBufferPrintFloat(number, decimals, x, page) ==
  [call |-> "lcdBufferPrintFloat", number |-> number, decimals |-> decimals,
   x |-> x, page |-> page]

lcdBufferPrintInt(number, x, page) ==
  [call |-> "lcdBufferPrintInt", number |-> number, x |-> x, page |-> page]

lcdBufferPrintStringAligned(text, page) ==
  [call |-> "lcdBufferPrintStringAligned", text |-> text,
   align |-> "eLcdAlignCenter", page |-> page]

\* what pValue points to: a text, or a number (an int or a float)
Text(text) == [text |-> text, number |-> 0]

Number(number) == [text |-> "", number |-> number]

\* the text a field of an item is printed with: the dummy string for none
TextOf(pText) == IF pText = NULL THEN "" ELSE pText

\* printItem: the decimals a float is measured and printed with
Decimals(pValueFlags, pValue) ==
  CASE pValueFlags = M_FLOAT1 -> 1
    [] pValueFlags = M_FLOAT2 -> 2
    [] pValueFlags = M_FLOAT3 -> 3
    [] pValueFlags = M_FLOAT4 -> 4
    [] pValueFlags = M_FLOAT5 -> 5
    [] pValueFlags = M_FLOATA -> determineDecimals(ToFloat(pValue))

\* a slip: under split alignment the flag M_SWAP is not looked at
FieldPositions_noswap(swap, alignFlags, afterNr, descSize, valSize) ==
  [descPos |-> afterNr,
   valPos |-> IF alignFlags = M_SPLIT
              THEN ToInt16(LCD_COLS - MENU_MARGIN - valSize)
              ELSE ToInt16(afterNr + descSize
                           + (IF descSize # 0 THEN LCD_CHAR_WIDTH ELSE 0))]

\* printItem: the positions of the description and of the value, where
\* afterNr is the position after the number field and its space
FieldPositions(swap, alignFlags, afterNr, descSize, valSize) ==
  IF swap
  THEN [valPos |-> afterNr,
        descPos |-> IF alignFlags = M_SPLIT
                    THEN ToInt16(LCD_COLS - MENU_MARGIN - descSize)
                    ELSE ToInt16(afterNr + valSize
                                 + (IF valSize # 0
                                    THEN LCD_CHAR_WIDTH
                                    ELSE 0))]
  ELSE [descPos |-> afterNr,
        valPos |-> IF alignFlags = M_SPLIT
                   THEN ToInt16(LCD_COLS - MENU_MARGIN - valSize)
                   ELSE ToInt16(afterNr + descSize
                                + (IF descSize # 0
                                   THEN LCD_CHAR_WIDTH
                                   ELSE 0))]

\* static void printItem(const menu_t *pMenu, uint8 nItem, uint8 page,
\* uint8 nrSize): its local variables at the end and the calls it makes
ItemLayout(pMenu, nItem, page, nrSizeGiven) ==
  LET pItem == pMenu.pItems[nItem + 1]
      selected == nItem = pMenu.nSelectedItem
      pTextNumber == TextOf(pItem.pTextNumber)
      pTextDescription == TextOf(pItem.pTextDescription)
      pValue == IF pItem.pValue = <<>> THEN Text("") ELSE pItem.pValue[1]
      alignFlags == pItem.align
      pValueFlags == IF pItem.pValue = <<>> THEN M_STRING ELSE pItem.kind
      nrSize == IF nrSizeGiven = 0
                THEN ToUint8(lcdGetStringLength(pTextNumber) * LCD_CHAR_WIDTH)
                ELSE nrSizeGiven
      descSize == ToUint8(lcdGetStringLength(pTextDescription)
                          * LCD_CHAR_WIDTH)
      selSize == IF pMenu.nSelectedItem # -1 THEN LCD_CHAR_WIDTH ELSE 0
      valSize ==
        ToUint8(LCD_CHAR_WIDTH *
                  (IF pValueFlags = M_STRING
                   THEN lcdGetStringLength(pValue.text)
                   ELSE IF pValueFlags = 0
                   THEN lcdGetIntLength(pValue.number)
                   ELSE lcdGetFloatLength(pValue.number,
                                          Decimals(pValueFlags,
                                                   pValue.number))))
      numOfMargins == -1 + (IF nrSize # 0 THEN 1 ELSE 0)
                         + (IF descSize # 0 THEN 1 ELSE 0)
                         + (IF valSize # 0 THEN 1 ELSE 0)
      totalSize == ToInt16(nrSize + descSize + valSize
                           + numOfMargins * LCD_CHAR_WIDTH)
      nrPos ==
        IF alignFlags = M_RIGHT
        THEN ToInt16(LCD_COLS - MENU_MARGIN - totalSize)
        ELSE IF alignFlags = M_CENTER
        THEN ToInt16(Quotient(LCD_COLS - MENU_MARGIN - totalSize, 2))
        ELSE MENU_MARGIN
      selPos == ToInt16(nrPos + nrSize)
      afterNr == ToInt16(nrPos + nrSize
                         + (IF nrSize # 0 \/ selSize # 0
                            THEN LCD_CHAR_WIDTH
                            ELSE 0))
      positions == FieldPositions(pItem.swap, alignFlags, afterNr, descSize,
                                  valSize)
      descPos == positions.descPos
      valPos == positions.valPos
  IN  [nItem |-> nItem, nrSize |-> nrSize, descSize |-> descSize,
       selSize |-> selSize, valSize |-> valSize, totalSize |-> totalSize,
       nrPos |-> nrPos, selPos |-> selPos, descPos |-> descPos,
       valPos |-> valPos,
       calls |->
         <<lcdBufferPrintString(pTextNumber, nrPos, page),
           lcdBufferPrintString(pTextDescription, descPos, page)>>
         \o (IF selected
             THEN <<lcdBufferPrintString("~", selPos, page)>>
             ELSE <<>>)
         \o (IF pValueFlags = M_STRING
             THEN <<lcdBufferPrintString(pValue.text, valPos, page)>>
             ELSE IF pValueFlags = 0
             THEN <<lcdBufferPrintInt(pValue.number, valPos, page)>>
             ELSE <<lcdBufferPrintFloat(pValue.number,
                                        Decimals(pValueFlags, pValue.number),
                                        valPos, page)>>)]

\* a slip: the counter reports the width of the texts it has printed
printNavNumbers_current(pMenu) ==
  IF pMenu.pTextMenuItems # NULL
  THEN LET currentNr == pMenu.pItems[pMenu.nCurrentItem + 1].pTextNumber
           margin == ToUint8(MENU_MARGIN - (LCD_CHAR_WIDTH - LCD_FONT_WIDTH))
       IN  [ret |-> ToUint8(margin
                            + lcdGetStringLength(pMenu.pTextMenuItems)
                                * LCD_CHAR_WIDTH
                            + lcdGetStringLength(currentNr) * LCD_CHAR_WIDTH
                            + LCD_CHAR_WIDTH + 1),
            calls |-> <<>>]
  ELSE [ret |-> 0, calls |-> <<>>]

\* static uint8 printNavNumbers(const menu_t *pMenu): the value it returns
\* and the calls it makes
printNavNumbers(pMenu) ==
  IF pMenu.pTextMenuItems # NULL
  THEN LET nCurrentItem == pMenu.nCurrentItem
           totalNr == pMenu.pTextMenuItems
           currentNr == pMenu.pItems[nCurrentItem + 1].pTextNumber
           margin == ToUint8(MENU_MARGIN - (LCD_CHAR_WIDTH - LCD_FONT_WIDTH))
           totalNrLen == ToUint8(lcdGetStringLength(totalNr))
           currentNrLen == ToUint8(lcdGetStringLength(currentNr))
           totalNrPos == ToUint8(LCD_COLS - margin
                                 - totalNrLen * LCD_CHAR_WIDTH)
           slashPos == ToUint8(totalNrPos - LCD_CHAR_WIDTH)
           currentNrPos == ToUint8(slashPos - currentNrLen * LCD_CHAR_WIDTH)
       IN  [ret |-> ToUint8(margin + 2 * totalNrLen * LCD_CHAR_WIDTH
                            + LCD_CHAR_WIDTH + 1),
            calls |-> <<lcdBufferPrintString(totalNr, totalNrPos, 0),
                        lcdBufferPrintString("/", slashPos, 0),
                        lcdBufferPrintString(currentNr, currentNrPos, 0)>>]
  ELSE [ret |-> 0, calls |-> <<>>]

\* static void printHeader(const menu_t *pMenu), for the menu at address self
\* in the menus heap: its local variables at the end and the calls it makes
HeaderLayout(heap, self) ==
  LET nav == printNavNumbers(heap[self])
      occupied == nav.ret
      maxWidth == ToUint8(Quotient(LCD_COLS - occupied, LCD_CHAR_WIDTH) - 1)
      skewThreshold ==
        ToUint8(Quotient(LCD_COLS - 2 * occupied, LCD_CHAR_WIDTH) - 2)
      prefTitleLen == ToUint8(lcdGetStringLength(prefTitle(heap, self)))
      width == IF prefTitleLen < maxWidth THEN prefTitleLen ELSE maxWidth
      title == SubSeq(prefTitle(heap, self), 1, width)
      pos == ToInt8(LCD_COLS - occupied - LCD_CHAR_WIDTH
                    - width * LCD_CHAR_WIDTH)
  IN  [occupied |-> occupied, maxWidth |-> maxWidth,
       skewThreshold |-> skewThreshold, width |-> width, title |-> title,
       centered |-> width <= skewThreshold,
       pos |-> IF width <= skewThreshold THEN -1 ELSE pos,
       calls |->
         nav.calls
         \o (IF width <= skewThreshold
             THEN <<lcdBufferPrintStringAligned(title, 0)>>
             ELSE <<lcdBufferPrintString(title, pos, 0)>>)
         \o <<lcdBufferSetHLine(1)>>]

\* an item with its texts, its value and the flags printItem reads
LaidItem(pTextNumber, pTextDescription, pValue, kind, align, swap) ==
  [disabled |-> FALSE, extend |-> FALSE, pSubMenu |-> NULL,
   pApplication |-> FALSE, pTextNumber |-> pTextNumber,
   pTextDescription |-> pTextDescription, pValue |-> pValue, kind |-> kind,
   align |-> align, swap |-> swap]

\* a menu of such items, with its header and its text of the number of items
LaidMenu(pItems, pTextHeader, pTextMenuItems, nCurrentItem, nSelectedItem) ==
  [pItems |-> pItems, pParentMenu |-> NULL, pTextHeader |-> pTextHeader,
   pTextMenuItems |-> pTextMenuItems, nMenuItems |-> Len(pItems),
   nCurrentItem |-> nCurrentItem, nSelectedItem |-> nSelectedItem,
   nScreen |-> 0, reservedAreas |-> 0]

\* the values an item may point to, each with the flags of its datatype:
\* texts, integers and floats; a null pointer whatever the flags say
Values ==
  <<<<M_STRING, <<>>>>, <<0, <<>>>>, <<M_STRING, <<Text("")>>>>,
    <<M_STRING, <<Text("On")>>>>, <<0, <<Number(7)>>>>,
    <<0, <<Number(-15)>>>>, <<M_FLOAT1, <<Number(12500000)>>>>,
    <<M_FLOAT2, <<Number(12500000)>>>>, <<M_FLOAT3, <<Number(-999999)>>>>,
    <<M_FLOAT4, <<Number(1503000)>>>>, <<M_FLOAT5, <<Number(1503000)>>>>,
    <<M_FLOATA, <<Number(1503000)>>>>>>

\* the item index "3", description "Volume", value 12.50 with 2 decimals,
\* description left and value right
VolumeItem ==
  LaidItem("3", "Volume", <<Number(12500000)>>, M_FLOAT2, M_SPLIT, FALSE)

\* the texts of a field of an item and of the header of a menu
NumberTexts == {NULL, "3", "12"}

DescriptionTexts == {NULL, "", "Volume"}

HeaderTexts ==
  {NULL, "Audio", "Display and contrast", "Radio test configuration"}

MenuItemsTexts == {NULL, "2", "10"}

\* the menu "Sub" has two items; either its first item is any item and it has
\* no header text and no counter, or its first item is the item "Volume" and
\* its header, its counter and its current item are any.  A menu with a
\* counter has a number text in every item.
LayoutInit ==
  /\ \E pTextNumber \in NumberTexts, pTextDescription \in DescriptionTexts,
        v \in 1..Len(Values), align \in {0, M_RIGHT, M_CENTER, M_SPLIT},
        swap \in BOOLEAN, nSelectedItem \in -2..1,
        pTextHeader \in HeaderTexts, pTextMenuItems \in MenuItemsTexts,
        nCurrentItem \in 0..1 :
       LET first == LaidItem(pTextNumber, pTextDescription, Values[v][2],
                             Values[v][1], align, swap)
           second == LaidItem("10", "Contrast", <<Number(42)>>, 0, 0, FALSE)
       IN  /\ \/ /\ pTextHeader = NULL
                 /\ pTextMenuItems = NULL
                 /\ nCurrentItem = 0
              \/ /\ first = VolumeItem
                 /\ nSelectedItem = -1
           /\ menu = [m \in Menus |->
                        CASE m = "Main" ->
                               LaidMenu(<<LaidItem("1", "Settings", <<>>,
                                                   M_STRING, 0, FALSE)>>,
                                        NULL, "1", 0, -1)
                          [] m = "Leaf" ->
                               LaidMenu(<<VolumeItem>>, "Audio", NULL, 0, -2)
                          [] m = "Sub" ->
                               LaidMenu(<<first, second>>, pTextHeader,
                                        pTextMenuItems, nCurrentItem,
                                        nSelectedItem)]
  /\ last = Call("none", NULL, 0, 0)
  /\ pPrevMenu = NULL

\* menuWriteBuffer calls printItem(pMenu, nItem, page, 0) for an item of the
\* menu at address self
PrintItem(self, nItem) ==
  /\ nItem < menu[self].nMenuItems
  /\ last' = Call("printItem", self, ItemLayout(menu[self], nItem, 1, 0), 0)
  /\ UNCHANGED <<menu, pPrevMenu>>

\* menuWriteBuffer calls printHeader(pMenu) for the menu at address self
PrintHeader(self) ==
  /\ last' = Call("printHeader", self, HeaderLayout(menu, self), 0)
  /\ UNCHANGED <<menu, pPrevMenu>>

LayoutNext ==
  \E self \in Menus :
    \/ \E nItem \in 0..1 : PrintItem(self, nItem)
    \/ PrintHeader(self)

LayoutSpec == LayoutInit /\ [][LayoutNext]_vars


(***************************************************************************)
(* C28 *)
(***************************************************************************)
\* the menus heap with the current item of the menu at address self set to
\* the item nItem
CursorAt(heap, self, nItem) == [heap EXCEPT ![self].nCurrentItem = nItem]

\* C28: whenever printHeader has printed the header of a menu, the width the
\* navigation counter reported is 0 when the menu has no pTextMenuItems and
\* else the margin, twice the width of pTextMenuItems, one character and one
\* pixel; and with any other item of the menu current the width reported, the
\* title, its length and its position would be the same.
C28_CounterWidthFixed ==
  last.op = "printHeader" =>
    LET pMenu == menu[last.menu]
        totalNrLen == lcdGetStringLength(pMenu.pTextMenuItems)
    IN  /\ last.ret.occupied =
             IF pMenu.pTextMenuItems = NULL
             THEN 0
             ELSE MENU_MARGIN - (LCD_CHAR_WIDTH - LCD_FONT_WIDTH)
                  + 2 * totalNrLen * LCD_CHAR_WIDTH + LCD_CHAR_WIDTH + 1
        /\ \A nItem \in 0..(pMenu.nMenuItems - 1) :
             LET other == HeaderLayout(CursorAt(menu, last.menu, nItem),
                                       last.menu)
             IN  /\ other.occupied = last.ret.occupied
                 /\ other.width = last.ret.width
                 /\ other.title = last.ret.title
                 /\ other.centered = last.ret.centered
                 /\ other.pos = last.ret.pos

\* the header of a menu of "10" items has been printed with the item of the
\* number "10" current, where the other item has the number "3": the counter
\* takes 32 pixels and the title, cut to 15 characters, starts at column 0
C28_Witness ==
  /\ last.op = "printHeader" /\ last.menu = "Sub"
  /\ menu["Sub"].pTextMenuItems = "10"
  /\ menu["Sub"].nCurrentItem = 1
  /\ menu["Sub"].pItems[1].pTextNumber = "3"
  /\ last.ret.occupied = 32
  /\ last.ret.title = "Radio test conf"
  /\ ~last.ret.centered /\ last.ret.pos = 0


(***************************************************************************)
(* C29 *)
(***************************************************************************)
\* the number of the fields number, description and value of a layout that
\* are not empty
FieldsShown(layout) ==
  (IF layout.nrSize # 0 THEN 1 ELSE 0)
  + (IF layout.descSize # 0 THEN 1 ELSE 0)
  + (IF layout.valSize # 0 THEN 1 ELSE 0)

\* C29: whenever printItem has printed an item, the total size it has
\* computed is the sum of the sizes of the number, the description and the
\* value plus one margin of one character for every two neighbours among the
\* fields that are not empty: no margin for no field or one, one margin for
\* two fields, two margins for three.
C29_TotalSize ==
  last.op = "printItem" =>
    last.ret.totalSize =
      last.ret.nrSize + last.ret.descSize + last.ret.valSize
      + LCD_CHAR_WIDTH * (IF FieldsShown(last.ret) = 0
                          THEN 0
                          ELSE FieldsShown(last.ret) - 1)


(***************************************************************************)
(* C30 *)
(***************************************************************************)
\* the item printed last
ItemPrinted == menu[last.menu].pItems[last.ret.nItem + 1]

\* the description and the value of the item "Volume" do not overlap
VolumeApart ==
  ItemPrinted = VolumeItem =>
    last.ret.descPos + last.ret.descSize <= last.ret.valPos

\* C30 as stated: whenever printItem has printed an item with M_SPLIT, with
\* M_SWAP clear the description starts at the left margin plus the size of
\* the number plus one margin and the value starts at the right margin minus
\* its size; with M_SWAP set the value and the description change places;
\* the description and the value of the item "3", "Volume", "12.50" do not
\* overlap.
C30_Split ==
  last.op = "printItem" /\ ItemPrinted.align = M_SPLIT =>
    LET layout == last.ret
        left == MENU_MARGIN + layout.nrSize + LCD_CHAR_WIDTH
    IN  /\ ~ItemPrinted.swap =>
             /\ layout.descPos = left
             /\ layout.valPos = LCD_COLS - MENU_MARGIN - layout.valSize
        /\ ItemPrinted.swap =>
             /\ layout.valPos = left
             /\ layout.descPos = LCD_COLS - MENU_MARGIN - layout.descSize
        /\ VolumeApart

\* C30: whenever printItem has printed an item with M_SPLIT, with M_SWAP
\* clear the description starts at the left margin plus the size of the
\* number, plus one margin when the item has a number or the menu keeps a
\* selected item (nSelectedItem is not -1), and the value starts at the right
\* margin minus its size; with M_SWAP set the value and the description
\* change places; the description and the value of the item "3", "Volume",
\* "12.50" do not overlap.
C30_SplitAfterNumber ==
  last.op = "printItem" /\ ItemPrinted.align = M_SPLIT =>
    LET layout == last.ret
        left == MENU_MARGIN + layout.nrSize
                + (IF layout.nrSize # 0 \/ menu[last.menu].nSelectedItem # -1
                   THEN LCD_CHAR_WIDTH
                   ELSE 0)
    IN  /\ ~ItemPrinted.swap =>
             /\ layout.descPos = left
             /\ layout.valPos = LCD_COLS - MENU_MARGIN - layout.valSize
        /\ ItemPrinted.swap =>
             /\ layout.valPos = left
             /\ layout.descPos = LCD_COLS - MENU_MARGIN - layout.descSize
        /\ VolumeApart

\* the item "3", "Volume", "12.50" has been printed: the description takes
\* the columns 14..49, the value starts at the column 96
C30_Witness ==
  /\ last.op = "printItem"
  /\ ItemPrinted = VolumeItem
  /\ last.ret.nrSize = 6 /\ last.ret.descPos = 14 /\ last.ret.descSize = 36
  /\ last.ret.valSize = 30 /\ last.ret.valPos = 96


(***************************************************************************)
(* The model of determineDecimals on float variables.  An item with the     *)
(* flag M_FLOATA of the menu "Leaf" points to a float variable that was     *)
(* initialised with a decimal literal; printItem calls determineDecimals    *)
(* with the value of the variable.                                          *)
(***************************************************************************)
\* the greatest number of decimals of the literals
MaxDecimals == 2

\* the whole parts of the literals
Wholes == {0, 1, 12}

\* the decimals of the literals: every sequence of up to MaxDecimals digits,
\* and the decimals of 1.503, 1.0625, 1.50001, 1.000006, 1.123456789 and
\* 1.2000000008
Literals ==
  UNION {[1..n -> 0..9] : n \in 0..MaxDecimals}
  \cup {<<5, 0, 3>>, <<0, 6, 2, 5>>, <<5, 0, 0, 0, 1>>, <<0, 0, 0, 0, 0, 6>>,
        <<1, 2, 3, 4, 5, 6, 7, 8, 9>>, <<2, 0, 0, 0, 0, 0, 0, 0, 0, 8>>}

\* the item that shows the float variable with as many decimals as it needs
FloatItem(number) ==
  LaidItem("1", "Gain", <<Number(number)>>, M_FLOATA, 0, FALSE)

DecimalsInit ==
  /\ \E negative \in BOOLEAN, whole \in Wholes, digits \in Literals :
       menu = [m \in Menus |->
                 CASE m = "Main" ->
                        LaidMenu(<<LaidItem("1", "Settings", <<>>, M_STRING,
                                            0, FALSE)>>,
                                 NULL, NULL, 0, -1)
                   [] m = "Sub" ->
                        LaidMenu(<<LaidItem("1", "Mode", <<Text("On")>>,
                                            M_STRING, 0, FALSE)>>,
                                 NULL, NULL, 0, -1)
                   [] m = "Leaf" ->
                        LaidMenu(<<FloatItem(FloatOf(negative, whole,
                                                     digits))>>,
                                 NULL, NULL, 0, -1)]
  /\ last = Call("none", NULL, 0, 0)
  /\ pPrevMenu = NULL

\* printItem calls determineDecimals(*pValueFloat) for an item with the flag
\* M_FLOATA and a value
DetermineDecimals(self, nItem) ==
  /\ nItem < menu[self].nMenuItems
  /\ LET pItem == menu[self].pItems[nItem + 1]
     IN  /\ pItem.pValue # <<>>
         /\ pItem.kind = M_FLOATA
         /\ last' = Call("determineDecimals", self,
                         [nItem |-> nItem,
                          decimals |->
                            determineDecimals(pItem.pValue[1].number)],
                         0)
  /\ UNCHANGED <<menu, pPrevMenu>>

DecimalsNext == \E self \in Menus : DetermineDecimals(self, 0)

DecimalsSpec == DecimalsInit /\ [][DecimalsNext]_vars


(***************************************************************************)
(* C31 *)
(***************************************************************************)
\* the float determineDecimals was called with last
NumberGiven == menu[last.menu].pItems[last.ret.nItem + 1].pValue[1].number

\* the least number of decimals whose decimal_k is decimal_5
LeastDecimals(number) ==
  CHOOSE k \in 0..5 :
    /\ decimal(number.fraction, k) = decimal(number.fraction, 5)
    /\ \A j \in 0..(k - 1) :
         decimal(number.fraction, j) # decimal(number.fraction, 5)

C32_OneScreen ==
  [][\A m \in Menus :
       Called("menuUp", m) \/ Called("menuDown", m) =>
         menu'[m].nScreen - menu[m].nScreen \in {-1, 0, 1}]_vars

\* menuDown has moved the submenu on to a screen with only disabled items and
\* has left the current item on a screen before it; the next enabled item is
\* on a screen after it
C32_Witness ==
  /\ last.op = "menuDown" /\ last.menu = "Sub" /\ last.ret = 1
  /\ menu["Sub"].nScreen <= LastScreen(menu["Sub"])
  /\ EnabledOnScreen(menu["Sub"]) = {}
  /\ ScreenOf(menu["Sub"], menu["Sub"].nCurrentItem) < menu["Sub"].nScreen
  /\ \E i \in EnabledItems(menu["Sub"]) :
       ScreenOf(menu["Sub"], i) > menu["Sub"].nScreen


(***************************************************************************)
(* C33 *)
(***************************************************************************)
\* C33: a menu that has items, constructed with its current item below
\* nMenuItems and its screen not after the screen of its last item, keeps
\* both whatever is called: the current item stays below nMenuItems and the
\* screen within 0..screenOf(nMenuItems - 1); the uint8 screen does not wrap
\* below 0.
C33_CursorInRange ==
  \A m \in Menus :
    menu[m].nMenuItems > 0 =>
      /\ menu[m].nCurrentItem \in 0..(menu[m].nMenuItems - 1)
      /\ menu[m].nScreen \in 0..LastScreen(menu[m])

\* menuUp has found no enabled item below the current item of the submenu,
\* shown on screen 0, and has left the screen and the current item alone; the
\* submenu has more than one screen
C33_Witness ==
  /\ last.op = "menuUp" /\ last.menu = "Sub" /\ last.ret = 0
  /\ menu["Sub"].nScreen = 0
  /\ menu["Sub"].nCurrentItem > 0
  /\ LastScreen(menu["Sub"]) > 0
  /\ menu["Sub"].pParentMenu # NULL


(***************************************************************************)
(* C34 *)
(***************************************************************************)
\* the most calls of menuDown that change a menu: each one moves the current
\* item or the screen on
MaxDownCalls(pMenu) == pMenu.nMenuItems + LastScreen(pMenu) + 1

\* the menu after each call of menuDown that reports a change, menuDown being
\* called until it reports none, n calls at most
RECURSIVE DownCalls(_, _)
DownCalls(pMenu, n) ==
  LET r == menuDown(pMenu)
  IN  IF n = 0 \/ r.ret = 0
      THEN <<>>
      ELSE <<r.menu>> \o DownCalls(r.menu, n - 1)

\* the positions of a menu while menuDown is repeated: the position it starts
\* from and the position after each call
Sweep(pMenu) == <<pMenu>> \o DownCalls(pMenu, MaxDownCalls(pMenu))

\* the items that are current during a sweep, in the order in which they
\* become current, the item current at the start first
RECURSIVE CurrentItems(_)
CurrentItems(sweep) ==
  IF Len(sweep) <= 1
  THEN [i \in 1..Len(sweep) |-> sweep[i].nCurrentItem]
  ELSE LET before == CurrentItems(SubSeq(sweep, 1, Len(sweep) - 1))
           pMenu == sweep[Len(sweep)]
       IN  IF pMenu.nCurrentItem = sweep[Len(sweep) - 1].nCurrentItem
           THEN before
           ELSE before \o <<pMenu.nCurrentItem>>

\* a sweep from the position pMenu ends, makes every enabled item current
\* once, in increasing order, and shows the screen of an item when the item
\* becomes current
SweepsAll(pMenu) ==
  LET sweep == Sweep(pMenu)
      items == CurrentItems(sweep)
  IN  /\ menuDown(sweep[Len(sweep)]).ret = 0
      /\ \A i \in 1..(Len(items) - 1) : items[i] < items[i + 1]
      /\ {items[i] : i \in 1..Len(items)} = EnabledItems(pMenu)
      /\ \A i \in 2..Len(sweep) :
           sweep[i].nCurrentItem # sweep[i - 1].nCurrentItem =>
             sweep[i].nScreen = ScreenOf(sweep[i], sweep[i].nCurrentItem)

\* C34: when menuPositionTop is called on a menu whose current item is
\* enabled, calling menuDown from the position it leaves until menuDown
\* reports no change makes every enabled item current once, in increasing
\* order, none skipped, and each time an item becomes current the screen is
\* the screen of that item.
C34_Sweep ==
  [][\A m \in Menus :
       /\ Called("menuPositionTop", m)
       /\ menu[m].nCurrentItem < menu[m].nMenuItems
       /\ ~ItemDisabled(menu[m], menu[m].nCurrentItem)
       => SweepsAll(menu'[m])]_vars

\* menuPositionTop has left the submenu on its first enabled item; the sweep
\* from there passes a screen that it only shows and makes another two items
\* current
C34_Witness ==
  /\ last.op = "menuPositionTop" /\ last.menu = "Sub"
  /\ menu["Sub"].nMenuItems > 0
  /\ menu["Sub"].nCurrentItem \in EnabledItems(menu["Sub"])
  /\ Len(CurrentItems(Sweep(menu["Sub"]))) = 3
  /\ Len(Sweep(menu["Sub"])) > 3
  /\ SweepsAll(menu["Sub"])


(***************************************************************************)
(* C35 *)
(***************************************************************************)
\* the menus that have an item whose submenu is the menu m
Openers(m) ==
  {p \in Menus :
     \E i \in 1..menu[p].nMenuItems : menu[p].pItems[i].pSubMenu = m}

RowEnd(layout, swap) ==
  LET descEnd == layout.descPos + layout.descSize
      valEnd == layout.valPos + layout.valSize
      nrEnd == layout.nrPos + layout.nrSize
  IN  IF swap
      THEN IF layout.descSize # 0 THEN descEnd
           ELSE IF layout.valSize # 0 THEN valEnd
           ELSE nrEnd
      ELSE IF layout.valSize # 0 THEN valEnd
           ELSE IF layout.descSize # 0 THEN descEnd
           ELSE nrEnd

\* C36: whenever printItem has printed an item with M_RIGHT, with M_SWAP or
\* without, the last field of the row ends at the right margin, whichever of
\* the number, the description and the value are empty and whatever
\* nSelectedItem is; whenever it has printed a left-aligned item the number
\* starts at the left margin.
C36_RightFlush ==
  last.op = "printItem" =>
    /\ ItemPrinted.align = M_RIGHT =>
         RowEnd(last.ret, ItemPrinted.swap) = LCD_COLS - MENU_MARGIN
    /\ ItemPrinted.align = 0 => last.ret.nrPos = MENU_MARGIN

====
